---- MODULE Spec2Model ----
(***************************************************************************)
(* A model of magnum-sceneconverter's main() (src/Magnum/SceneTools/       *)
(* sceneconverter.cpp): option checks, import, single-mesh selection and   *)
(* mesh concatenation, per-mesh preprocessing and the converter chain.     *)
(* Plugins (importers, converters) are external: every call on them is     *)
(* logged in `calls` and its outcome is chosen nondeterministically.       *)
(***************************************************************************)
EXTENDS Integers, Sequences, FiniteSets, TLC

(* ---- bounds of the model ---------------------------------------------- *)
MaxConverters == 2        \* most -C options given
MaxMeshConverters == 1    \* most -M options given
MaxMeshes == 2            \* most meshes in the input file
MaxFlattened == 1         \* most entries of a flattened mesh hierarchy
MaxMeshChain == 2         \* most -M options given in the runs of SpecMeshChain
MaxTriangles == 1         \* most triangles given to generateFlatNormals()
MaxShaderId == 3          \* largest GL object id of a shader

(* ---- types ------------------------------------------------------------ *)
\* The Trade::SceneConverterFeature values main() looks at
SceneConverterFeatures ==
    {"ConvertMesh", "ConvertMultiple", "ConvertMeshToFile",
     "ConvertMultipleToFile"}

\* ~Trade::SceneContents{}: every content category
AllSceneContents ==
    {"Scenes", "Animations", "Lights", "Cameras", "Skins", "Meshes",
     "Materials", "Textures", "Names"}

\* What AnySceneConverter::doFeatures() declares
AnySceneConverterFeatures == {"ConvertMeshToFile", "ConvertMultipleToFile"}

\* Trade::sceneContentsFor(converter): the categories the converter accepts.
\* main() looks at Meshes only: a converter that converts single meshes
\* accepts them, one that declares only multi-content conversion does not.
sceneContentsFor(features) ==
    (AllSceneContents \ {"Meshes"}) \cup
    (IF features \cap {"ConvertMesh", "ConvertMeshToFile"} # {}
     THEN {"Meshes"} ELSE {})

MeshPrimitives == {"Triangles", "Lines"}

\* The primitives of the meshes imported outside --concatenate-meshes: main()
\* looks at the primitive of a mesh nowhere but in the concatenation, so one
\* value stands for all of them there
OtherMeshPrimitives == {"Triangles"}

\* The primitives MeshTools::concatenate() does not take: "loops/strips/fans"
\* (505)
NonConcatenablePrimitives ==
    {"LineLoop", "LineStrip", "TriangleStrip", "TriangleFan"}

\* A Trade::MeshAttribute: a builtin one, or a custom one with its id
\* (isMeshAttributeCustom(), meshAttributeCustom())
Position == [custom |-> FALSE, id |-> 0]
Normal == [custom |-> FALSE, id |-> 1]
meshAttributeCustom(id) == [custom |-> TRUE, id |-> id]
isMeshAttributeCustom(name) == name.custom

\* A Trade::MeshData value: its primitive, its vertex count, the names of its
\* attributes in order, the source meshes it was made of and the
\* preprocessing steps applied to it so far
MeshData(primitive, origin, data) ==
    [primitive |-> primitive, origin |-> origin, steps |-> <<>>,
     vertexCount |-> data.vertexCount, attributes |-> data.attributes]

\* meshCount is -1 until main() asks the importer for it: what an importer
\* answers is chosen when it is first asked
\* attributeNames is the table of a SingleMeshImporter (580), empty
\* otherwise, and name its mesh name (579), the empty string otherwise
\* hierarchy is what flattening the default scene of the importer gave, once
\* the scene was imported: the mesh indices in traversal order
NoImporter ==
    [kind |-> "none", id |-> 0, meshCount |-> -1, mesh |-> <<>>,
     attributeNames |-> <<>>, name |-> <<>>, hierarchy |-> <<>>]
NoConverter == [stage |-> -1, features |-> {}, state |-> "None"]

VARIABLES
    args,               \* the parsed command line
    pc,                 \* position in main()
    exitCode,           \* value returned by main(), -1 while running
    failure,            \* which return statement ended the run
    importer,           \* Containers::Pointer<AbstractImporter> importer
    previousImporter,   \* the previousImporter of the single-mesh block (588)
    nextImporterId,     \* identity given to the next importer instance
    mesh,               \* Containers::Optional<Trade::MeshData> mesh
    meshesToConcatenate,\* `meshes` of the --concatenate-meshes branch
    meshes,             \* the loose mesh array of line 598
    meshIndex,          \* i of the mesh loops (468, 603) and of loop 760
    meshConverterIndex, \* j of the mesh converter loop (647)
    i,                  \* i of the converter loop (691)
    converter,          \* Containers::Pointer<AbstractSceneConverter> converter
    isLastConverter,    \* const bool isLastConverter (707)
    contents,           \* Trade::SceneContents contents (752)
    calls,              \* every call made on a plugin or plugin manager
    input,              \* what the input file and the plugins hold in this run
    teardown,           \* the locals of main() destroyed by its return, in order
    positions,          \* the positions given to MeshTools::generateFlatNormals()
    normals,            \* the normals array it returns or fills
    generated,          \* which of the two functions has run, and how it ended
    shaders             \* the shader instances of the move test and their GL ids

\* The variables of the library functions modelled besides main()
toolVars == <<positions, normals, generated, shaders>>

vars == <<args, pc, exitCode, failure, importer, previousImporter,
          nextImporterId, mesh,
          meshesToConcatenate, meshes, meshIndex, meshConverterIndex, i,
          converter, isLastConverter, contents, calls, input, teardown,
          toolVars>>

(* ---- helpers ---------------------------------------------------------- *)
\* A name is the sequence of its characters: the empty Containers::String
NoName == <<>>

\* One logged call: who was called (importer id or converter stage), what,
\* whether it succeeded, and its arguments where the claims need them
Call(target, stage, op, ok, meshArg, contentsArg, importerArg) ==
    [target |-> target, stage |-> stage, op |-> op, ok |-> ok,
     mesh |-> meshArg, contents |-> contentsArg, importer |-> importerArg,
     name |-> NoName]

\* A logged call that takes or gives the name of custom attribute `id`
NameCall(target, stage, op, id, name, importerArg) ==
    [Call(target, stage, op, TRUE, id, {}, importerArg) EXCEPT !.name = name]

Log(c) == calls' = Append(calls, c)

\* Whether the input file is mapped: mapRead() of 418 has succeeded
MappingLive ==
    \E k \in 1..Len(calls) : calls[k].op = "mapRead" /\ calls[k].ok

\* The locals of main() that hold something where it returns: the loop-local
\* converter (695), the meshes of the blocks (455, 464, 604), the loose mesh
\* array once it is declared (598), the mapping (415) and the importer (395)
LiveObjects ==
    (IF converter # NoConverter THEN {"converter"} ELSE {})
    \cup (IF mesh # <<>> THEN {"mesh"} ELSE {})
    \cup (IF meshesToConcatenate # <<>> THEN {"meshesToConcatenate"} ELSE {})
    \cup (IF pc \in {"preprocess", "preprocessImport", "removeDuplicates",
                     "meshConverters", "converterLoop", "converterBegin",
                     "looseMeshes", "addImporterContents", "converterEnd"}
          THEN {"meshes"} ELSE {})
    \cup (IF MappingLive THEN {"mapped"} ELSE {})
    \cup (IF importer # NoImporter THEN {"importer"} ELSE {})

\* The destructors a return statement runs: locals are destroyed in the
\* reverse order of their declaration, the innermost scope first. `importer`
\* is declared at 395, `mapped` at 415, the loose `meshes` at 598.
DestructionOrder(live) ==
    SelectSeq(<<"converter", "mesh", "meshesToConcatenate", "meshes",
                "mapped", "importer">>, LAMBDA o : o \in live)

\* return <code>; with the objects in `live` still alive
ReturnDestroying(code, why, live) ==
    /\ pc' = "done"
    /\ exitCode' = code
    /\ failure' = why
    /\ teardown' = DestructionOrder(live)
    /\ UNCHANGED <<input, toolVars>>

\* return <code>;
Return(code, why) == ReturnDestroying(code, why, LiveObjects)

Goto(label) ==
    /\ pc' = label
    /\ UNCHANGED <<exitCode, failure, input, teardown, toolVars>>

\* bool singleMesh (449-451)
singleMesh == args.concatenateMeshes \/ args.mesh

\* isInfoRequested(args) (233-245)
isInfoRequested == args.info

\* the condition of line 599-601
PreprocessingRequested ==
    \/ args.removeDuplicateVertices
    \/ args.removeDuplicateVerticesFuzzy
    \/ args.meshConverterCount > 0

\* The command lines without --verbose: --map given or not, the output
\* argument given or not, the numbers of -M and -C options, and every
\* combination of the others
ArgsOf(maps, outputs, meshConverterCounts, converterCounts) ==
    [mesh : BOOLEAN, meshLevel : BOOLEAN, concatenateMeshes : BOOLEAN,
     onlyMeshAttributes : BOOLEAN, info : BOOLEAN,
     removeDuplicateVertices : BOOLEAN,
     removeDuplicateVerticesFuzzy : BOOLEAN,
     meshConverterCount : meshConverterCounts,
     converterCount : converterCounts,
     map : maps, output : outputs, verbose : {FALSE}]

Args == ArgsOf({FALSE}, {TRUE}, 0..MaxMeshConverters, 0..MaxConverters)

\* Nothing is fixed about the converter plugins that are installed: whether
\* a plugin can be instantiated is found out where it is loaded
AnyPlugins ==
    [known |-> FALSE, missingMeshConverters |-> {}, missingConverters |-> {}]

\* What converterManager.loadAndInstantiate() can give for the j-th -M
\* option (657): a plugin, unless its name is among the missing ones
MeshConverterLoads(j) ==
    IF input.plugins.known
    THEN {j \notin input.plugins.missingMeshConverters}
    ELSE BOOLEAN

\* The same for the converter of stage `index` of the chain (695): the
\* missing names are among those given with -C
ConverterLoads(index) ==
    IF input.plugins.known
    THEN {index >= args.converterCount
          \/ index \notin input.plugins.missingConverters}
    ELSE BOOLEAN

\* An input file of up to MaxMeshes meshes with one vertex and positions
\* only, each either triangles or lines, and mesh converters that keep the shape of
\* the mesh. `names` are the custom attribute names of the file, `only` the
\* values --only-mesh-attributes can have, `converted` the shapes a mesh
\* converter can give to a mesh besides the one it had, `hierarchyLengths`
\* the numbers of entries the flattened hierarchy of its scene can have,
\* `plugins` the converter plugins that are installed.
PlainInputs ==
    {[meshCounts |-> 0..MaxMeshes,
      primitives |-> MeshPrimitives,
      meshData |-> {[vertexCount |-> 1, attributes |-> <<Position>>]},
      names |-> <<>>,
      only |-> {<<0>>},
      converted |-> {},
      hierarchyLengths |-> 0..MaxFlattened,
      plugins |-> AnyPlugins]}

\* No normals are asked for
NormalsIdle ==
    /\ positions = <<>>
    /\ normals = <<>>
    /\ generated = "no"

\* No shader instance is declared
ShadersIdle ==
    shaders = [dimensions |-> 2, id |-> <<>>, created |-> {}, moved |-> <<>>]

\* main() at its start, for the command lines and the inputs given
MainInit(commandLines, inputs) ==
    /\ args \in commandLines
    /\ input \in inputs
    /\ pc = "parseArguments"
    /\ exitCode = -1
    /\ failure = "none"
    /\ importer = NoImporter
    /\ previousImporter = NoImporter
    /\ nextImporterId = 1
    /\ mesh = <<>>
    /\ meshesToConcatenate = <<>>
    /\ meshes = <<>>
    /\ meshIndex = 0
    /\ meshConverterIndex = 0
    /\ i = 0
    /\ converter = NoConverter
    /\ isLastConverter = FALSE
    /\ contents = {}
    /\ calls = <<>>
    /\ teardown = <<>>

InitOf(commandLines, inputs) ==
    /\ MainInit(commandLines, inputs)
    /\ NormalsIdle
    /\ ShadersIdle

Init == InitOf(Args, PlainInputs)

(* ---- command line parsing, 250-327 ------------------------------------ *)
\* Variant of 284-291 without the parse error callback: the output argument
\* is required whatever else is given
ParseArgumentsOutputRequired ==
    /\ pc = "parseArguments"
    /\ IF ~args.output
       THEN ReturnDestroying(1, "arguments", {})
       ELSE Goto("checkOptions")
    /\ UNCHANGED <<args, importer, previousImporter, nextImporterId, mesh,
                   meshesToConcatenate, meshes, meshIndex, meshConverterIndex,
                   i, converter, isLastConverter, contents, calls>>

\* Arguments::parse(): the output argument is required, but the parse error
\* callback lets it be missing if --info is given (284-291). On an error
\* parse() prints the usage and exits with 1; main() holds nothing yet.
ParseArguments ==
    /\ pc = "parseArguments"
    /\ IF ~args.output /\ ~isInfoRequested
       THEN ReturnDestroying(1, "arguments", {})
       ELSE Goto("checkOptions")
    /\ UNCHANGED <<args, importer, previousImporter, nextImporterId, mesh,
                   meshesToConcatenate, meshes, meshIndex, meshConverterIndex,
                   i, converter, isLastConverter, contents, calls>>

(* ---- generic checks, 354-375 ------------------------------------------ *)
\* Variant of the check of 362 that looks at --mesh-level instead of --mesh
MeshAndConcatenateGivenWrongOption(a) == a.concatenateMeshes /\ a.meshLevel

\* The --mesh and --concatenate-meshes options are mutually exclusive (362)
MeshAndConcatenateGiven(a) == a.concatenateMeshes /\ a.mesh

\* Variant of the check of 366 that is skipped when --info is given
MeshLevelWithoutMeshUnlessInfo(a) == a.meshLevel /\ ~a.mesh /\ ~a.info

\* The --mesh-level option can only be used with --mesh (366)
MeshLevelWithoutMesh(a) == a.meshLevel /\ ~a.mesh

\* Variant of the check of 372 with the --concatenate-meshes test inverted
OnlyAttributesWithoutSingleMeshInverted(a) ==
    a.onlyMeshAttributes /\ ~a.mesh /\ a.concatenateMeshes

\* The --only-mesh-attributes option can only be used with --mesh or
\* --concatenate-meshes (372)
OnlyAttributesWithoutSingleMesh(a) ==
    a.onlyMeshAttributes /\ ~a.mesh /\ ~a.concatenateMeshes

CheckOptions ==
    /\ pc = "checkOptions"
    /\ IF MeshAndConcatenateGiven(args)
       THEN Return(1, "options")
       ELSE IF MeshLevelWithoutMesh(args)
       THEN Return(1, "options")
       ELSE IF OnlyAttributesWithoutSingleMesh(args)
       THEN Return(1, "options")
       ELSE Goto("loadImporter")
    /\ UNCHANGED <<args, importer, nextImporterId, mesh, meshesToConcatenate,
                   meshes, meshIndex, meshConverterIndex, i, converter,
                   isLastConverter, contents, calls>>
    /\ UNCHANGED previousImporter

(* ---- importer instantiation, 395-399 ---------------------------------- *)
LoadImporter ==
    /\ pc = "loadImporter"
    /\ \E ok \in BOOLEAN :
        /\ Log(Call("importerManager", -1, "loadAndInstantiate", ok,
                    -1, {}, -1))
        /\ IF ok
           THEN /\ importer' = [NoImporter EXCEPT !.kind = "file",
                                                  !.id = nextImporterId]
                /\ nextImporterId' = nextImporterId + 1
                /\ Goto("open")
           ELSE /\ Return(1, "importerNotFound")
                /\ UNCHANGED <<importer, nextImporterId>>
    /\ UNCHANGED <<args, mesh, meshesToConcatenate, meshes, meshIndex,
                   meshConverterIndex, i, converter, isLastConverter,
                   contents>>
    /\ UNCHANGED previousImporter

(* ---- opening the input, 413-430 --------------------------------------- *)
\* Variant of 413-430 that goes on although the file could not be opened
OpenInputIgnoringFailure ==
    /\ pc = "open"
    /\ \E mappedOk \in (IF args.map THEN BOOLEAN ELSE {TRUE}), ok \in BOOLEAN :
        LET read == Call("path", -1, "mapRead", mappedOk, -1, {}, -1)
            opened == Call("importer", -1, "open", ok, -1, {}, importer.id)
        IN  /\ calls' = calls \o (IF args.map THEN <<read>> ELSE <<>>)
                               \o <<opened>>
            /\ Goto(IF isInfoRequested THEN "printInfo"
                    ELSE IF singleMesh
                    THEN (IF args.concatenateMeshes THEN "concatenate"
                          ELSE "importSingleMesh")
                    ELSE "preprocess")
    /\ UNCHANGED <<args, importer, previousImporter, nextImporterId, mesh,
                   meshesToConcatenate, meshes, meshIndex, meshConverterIndex,
                   i, converter, isLastConverter, contents>>

\* With --map the file is mapped with Utility::Path::mapRead() and opened
\* with openMemory(), else it is opened with openFile(); any failure is
\* return 3 (415-430). `mapped` holds the mapping once mapRead() succeeded.
OpenInput ==
    /\ pc = "open"
    /\ \E mappedOk \in (IF args.map THEN BOOLEAN ELSE {TRUE}), ok \in BOOLEAN :
        LET read == Call("path", -1, "mapRead", mappedOk, -1, {}, -1)
            opened == Call("importer", -1, "open", ok, -1, {}, importer.id)
        IN  IF ~mappedOk
            THEN /\ calls' = Append(calls, read)
                 /\ Return(3, "open")
            ELSE /\ calls' = calls \o (IF args.map THEN <<read>> ELSE <<>>)
                                    \o <<opened>>
                 /\ IF ok
                    THEN Goto(IF isInfoRequested THEN "printInfo"
                              ELSE IF singleMesh
                              THEN (IF args.concatenateMeshes THEN "concatenate"
                                    ELSE "importSingleMesh")
                              ELSE "preprocess")
                    ELSE ReturnDestroying(3, "open",
                             LiveObjects \cup
                             (IF args.map THEN {"mapped"} ELSE {}))
    /\ UNCHANGED <<args, importer, nextImporterId, mesh, meshesToConcatenate,
                   meshes, meshIndex, meshConverterIndex, i, converter,
                   isLastConverter, contents>>
    /\ UNCHANGED previousImporter

(* ---- printing file info, 432-441 -------------------------------------- *)
PrintInfo ==
    /\ pc = "printInfo"
    /\ \E error \in BOOLEAN :
        /\ Log(Call("importer", -1, "printInfo", ~error, -1, {}, importer.id))
        /\ Return(IF error THEN 1 ELSE 0, IF error THEN "info" ELSE "none")
    /\ UNCHANGED <<args, importer, nextImporterId, mesh, meshesToConcatenate,
                   meshes, meshIndex, meshConverterIndex, i, converter,
                   isLastConverter, contents>>
    /\ UNCHANGED previousImporter

(* ---- --concatenate-meshes, 457-508 ------------------------------------ *)
\* Whether MeshTools::concatenate() accepts the list: it asserts on an empty
\* list, on meshes whose primitives differ and on loops, strips and fans
\* (504-506)
CanConcatenate(list) ==
    /\ list # <<>>
    /\ \A k \in 1..Len(list) :
          /\ list[k].primitive = list[1].primitive
          /\ list[k].primitive \notin NonConcatenablePrimitives

RECURSIVE Origins(_)
Origins(list) ==
    IF list = <<>> THEN <<>> ELSE list[1].origin \o Origins(Tail(list))

RECURSIVE VertexCounts(_)
VertexCounts(list) ==
    IF list = <<>> THEN 0
    ELSE list[1].vertexCount + VertexCounts(Tail(list))

\* MeshTools::concatenate(meshes): the vertices of all meshes in order, with
\* the primitive and the attributes of the first mesh
concatenate(list) ==
    [primitive |-> list[1].primitive,
     origin |-> Origins(list),
     steps |-> <<[op |-> "concatenate", index |-> Len(list)]>>,
     vertexCount |-> VertexCounts(list),
     attributes |-> list[1].attributes]

\* MeshTools::transform3D(mesh, transformation)
transform3D(m) ==
    [m EXCEPT !.steps = Append(@, [op |-> "transform3D", index |-> 0])]

\* an assertion of a collaborator fired: the process is aborted
Abort(why) ==
    /\ pc' = "aborted"
    /\ failure' = why
    /\ UNCHANGED <<exitCode, input, teardown, toolVars>>

ConcatenateBegin ==
    /\ pc = "concatenate"
    /\ \E count \in input.meshCounts :
        /\ importer' = [importer EXCEPT !.meshCount = count]
        /\ IF count = 0
           THEN Return(1, "noMeshes")
           ELSE Goto("concatenateImport")
    /\ meshIndex' = 0
    /\ UNCHANGED <<args, nextImporterId, mesh, meshesToConcatenate,
                   meshes, meshConverterIndex, i, converter, isLastConverter,
                   contents, calls>>
    /\ UNCHANGED previousImporter

ConcatenateImportMesh ==
    /\ pc = "concatenateImport"
    /\ meshIndex < importer.meshCount
    /\ \E ok \in BOOLEAN, primitive \in input.primitives,
          data \in input.meshData :
        /\ Log(Call("importer", -1, "mesh", ok, meshIndex, {}, importer.id))
        /\ IF ok
           THEN /\ meshesToConcatenate' =
                       Append(meshesToConcatenate,
                              MeshData(primitive, <<meshIndex>>, data))
                /\ meshIndex' = meshIndex + 1
                /\ Goto(IF meshIndex + 1 = importer.meshCount
                        THEN "concatenateFlatten" ELSE "concatenateImport")
           ELSE /\ Return(1, "meshImport")
                /\ UNCHANGED <<meshesToConcatenate, meshIndex>>
    /\ UNCHANGED <<args, importer, nextImporterId, mesh, meshes,
                   meshConverterIndex, i, converter, isLastConverter,
                   contents>>
    /\ UNCHANGED previousImporter

\* SceneTools::flattenMeshHierarchy3D(scene): mesh indices in traversal order
FlattenedHierarchies ==
    UNION {[1..n -> 0..(importer.meshCount - 1)] :
           n \in input.hierarchyLengths}

\* Variant of 482-500 without line 500: the flattened meshes are built but
\* the list to concatenate stays the imported one
ConcatenateFlattenWithoutMove ==
    /\ pc = "concatenateFlatten"
    /\ \/ \E ok \in BOOLEAN, flattened \in FlattenedHierarchies :
              /\ Log(Call("importer", -1, "scene", ok, -1, {}, importer.id))
              /\ IF ok
                 THEN /\ importer' = [importer EXCEPT !.hierarchy = flattened]
                      /\ Goto("concatenateMeshes")
                      /\ UNCHANGED meshesToConcatenate
                 ELSE /\ Return(1, "sceneImport")
                      /\ UNCHANGED <<importer, meshesToConcatenate>>
       \/ /\ Goto("concatenateMeshes")
          /\ UNCHANGED <<importer, meshesToConcatenate, calls>>
    /\ UNCHANGED <<args, previousImporter, nextImporterId, mesh,
                   meshes, meshIndex, meshConverterIndex, i, converter,
                   isLastConverter, contents>>

\* Variant of 482-500 that bakes a transformation into the meshes also if
\* the file has no default scene
ConcatenateFlattenTransformingAlways ==
    /\ pc = "concatenateFlatten"
    /\ \/ \E ok \in BOOLEAN, flattened \in FlattenedHierarchies :
              /\ Log(Call("importer", -1, "scene", ok, -1, {}, importer.id))
              /\ IF ok
                 THEN /\ importer' = [importer EXCEPT !.hierarchy = flattened]
                      /\ meshesToConcatenate' =
                           [k \in 1..Len(flattened) |->
                              transform3D(meshesToConcatenate[flattened[k] + 1])]
                      /\ Goto("concatenateMeshes")
                 ELSE /\ Return(1, "sceneImport")
                      /\ UNCHANGED <<importer, meshesToConcatenate>>
       \/ /\ Goto("concatenateMeshes")
          /\ meshesToConcatenate' =
                 [k \in 1..Len(meshesToConcatenate) |->
                    transform3D(meshesToConcatenate[k])]
          /\ UNCHANGED <<importer, calls>>
    /\ UNCHANGED <<args, previousImporter, nextImporterId, mesh,
                   meshes, meshIndex, meshConverterIndex, i, converter,
                   isLastConverter, contents>>

\* First disjunct: importer->defaultScene() != -1, second: there is no scene
ConcatenateFlatten ==
    /\ pc = "concatenateFlatten"
    /\ \/ \E ok \in BOOLEAN, flattened \in FlattenedHierarchies :
              /\ Log(Call("importer", -1, "scene", ok, -1, {}, importer.id))
              /\ IF ok
                 THEN /\ importer' = [importer EXCEPT !.hierarchy = flattened]
                      /\ meshesToConcatenate' =
                           [k \in 1..Len(flattened) |->
                              transform3D(meshesToConcatenate[flattened[k] + 1])]
                      /\ Goto("concatenateMeshes")
                 ELSE /\ Return(1, "sceneImport")
                      /\ UNCHANGED <<importer, meshesToConcatenate>>
       \/ /\ Goto("concatenateMeshes")
          /\ UNCHANGED <<importer, meshesToConcatenate, calls>>
    /\ UNCHANGED <<args, nextImporterId, mesh, meshes, meshIndex,
                   meshConverterIndex, i, converter, isLastConverter,
                   contents>>
    /\ UNCHANGED previousImporter

\* mesh = MeshTools::concatenate(meshes) (507). main() does not check the
\* list: on one that concatenate() does not accept its assertion fires, or,
\* in a build with the assertions compiled out (CORRADE_NO_ASSERT), the
\* meshes are concatenated as if they had the primitive of the first one.
ConcatenateMeshes ==
    /\ pc = "concatenateMeshes"
    /\ IF CanConcatenate(meshesToConcatenate)
       THEN /\ mesh' = <<concatenate(meshesToConcatenate)>>
            /\ Goto("filterAttributes")
       ELSE \E asserted \in
                (IF meshesToConcatenate = <<>> THEN {TRUE} ELSE BOOLEAN) :
              IF asserted
              THEN /\ Abort("concatenateAssertion")
                   /\ UNCHANGED mesh
              ELSE /\ mesh' = <<concatenate(meshesToConcatenate)>>
                   /\ Goto("filterAttributes")
    /\ meshesToConcatenate' = <<>>
    /\ UNCHANGED <<args, importer, nextImporterId, meshes, meshIndex,
                   meshConverterIndex, i, converter, isLastConverter,
                   contents, calls>>
    /\ UNCHANGED previousImporter

(* ---- --mesh, 510-517 --------------------------------------------------- *)
ImportSingleMesh ==
    /\ pc = "importSingleMesh"
    /\ \E ok \in BOOLEAN, primitive \in OtherMeshPrimitives,
          id \in {count - 1 : count \in input.meshCounts \ {0}},
          data \in input.meshData :
        /\ Log(Call("importer", -1, "mesh", ok, id, {}, importer.id))
        /\ IF ok
           THEN /\ mesh' = <<MeshData(primitive, <<id>>, data)>>
                /\ Goto("filterAttributes")
           ELSE /\ Return(4, "meshImport")
                /\ UNCHANGED mesh
    /\ UNCHANGED <<args, importer, nextImporterId, meshesToConcatenate,
                   meshes, meshIndex, meshConverterIndex, i, converter,
                   isLastConverter, contents>>
    /\ UNCHANGED previousImporter

(* ---- --only-mesh-attributes, 519-539 ----------------------------------- *)
\* Utility::String::parseNumberSequence(string, 0, attributeCount): the ids
\* of the string that are below attributeCount
parseNumberSequence(ids, attributeCount) ==
    SelectSeq(ids, LAMBDA id : id < attributeCount)

\* The attributes picked by `only`, in its order (529-532)
filterOnlyAttributes(attributes, only) ==
    [k \in 1..Len(only) |-> attributes[only[k] + 1]]

FilterAttributes ==
    /\ pc = "filterAttributes"
    /\ IF args.onlyMeshAttributes
       THEN \E ok \in BOOLEAN, ids \in input.only :
              IF ok
              THEN /\ mesh' = <<[mesh[1] EXCEPT
                          !.steps =
                              Append(@, [op |-> "filterAttributes",
                                         index |-> 0]),
                          !.attributes =
                              filterOnlyAttributes(@,
                                  parseNumberSequence(ids, Len(@)))]>>
                   /\ Goto("createSingleMeshImporter")
              ELSE /\ Return(2, "attributeRange")
                   /\ UNCHANGED mesh
       ELSE /\ Goto("createSingleMeshImporter")
            /\ UNCHANGED mesh
    /\ UNCHANGED <<args, importer, nextImporterId, meshesToConcatenate,
                   meshes, meshIndex, meshConverterIndex, i, converter,
                   isLastConverter, contents, calls>>
    /\ UNCHANGED previousImporter

(* ---- SingleMeshImporter, 541-594 --------------------------------------- *)
\* SingleMeshImporter::doFeatures() (556)
doFeatures(imp) == {}

\* SingleMeshImporter::doIsOpened() (557)
doIsOpened(imp) == TRUE

\* SingleMeshImporter::doClose() (558): the importer after it was closed
doClose(imp) == imp

\* What AbstractImporter::doMeshCount() answers if it is not overridden
doMeshCountDefault(imp) == 0

\* SingleMeshImporter::doMeshCount() (560)
doMeshCount(imp) == 1

\* SingleMeshImporter::doMesh(id, level) (574-576): a reference to the
\* carried mesh, whatever the id and the level
doMesh(imp, id, level) == imp.mesh

\* SingleMeshImporter::doMeshAttributeName(name) (564-573): the name of the
\* first entry of the table with that id; <<>> stands for reaching
\* CORRADE_INTERNAL_ASSERT_UNREACHABLE()
doMeshAttributeName(imp, id) ==
    LET found == SelectSeq(imp.attributeNames, LAMBDA e : e.id = id)
    IN  IF found # <<>> THEN <<found[1].name>> ELSE <<>>

\* importer->meshAttributeName(name) for a custom attribute: the adapter
\* looks its table up, a file importer knows the names of its file and
\* answers an empty name for the others
meshAttributeName(imp, name) ==
    IF imp.kind = "single" THEN doMeshAttributeName(imp, name.id)
    ELSE IF imp.kind = "file" /\ name.id \in DOMAIN input.names
    THEN <<input.names[name.id]>>
    ELSE <<NoName>>

\* The name the input file has for its mesh `id`: every mesh has a name of
\* its own
meshNameInFile(id) == <<id + 1>>

\* SingleMeshImporter::doMeshName(id) (561-563): the name given to the
\* constructor, whatever the id
doMeshName(imp, id) == imp.name

\* importer->meshName(id): the adapter answers with its one name, a file
\* importer with the name in the file
meshName(imp, id) ==
    IF imp.kind = "single" THEN doMeshName(imp, id)
    ELSE IF imp.kind = "file" THEN meshNameInFile(id)
    ELSE NoName

\* Variant of 592 that propagates a mesh name with --concatenate-meshes too
SingleMeshImporterNameAlways(original, m) == meshName(original, m.origin[1])

\* The name argument of the constructor: "Propagate the name only in case of
\* a single mesh, for concatenation it wouldn't make sense" (590-592)
SingleMeshImporterName(original, m) ==
    IF args.mesh THEN meshName(original, m.origin[1]) ELSE NoName

\* The calls made on the original importer while the adapter is set up:
\* meshName() for the argument (592) and one meshAttributeName() for every
\* custom attribute of the mesh in the constructor (552)
SingleMeshImporterCalls(original, m) ==
    LET custom == SelectSeq(m.attributes, isMeshAttributeCustom)
    IN  (IF args.mesh
         THEN <<NameCall("importer", -1, "meshName", m.origin[1],
                         meshName(original, m.origin[1]), original.id)>>
         ELSE <<>>)
        \o [k \in 1..Len(custom) |->
               NameCall("importer", -1, "meshAttributeName", custom[k].id,
                        meshAttributeName(original, custom[k])[1],
                        original.id)]

\* Variant of 547-553 that leaves the attributes without a name out
RECURSIVE SingleMeshImporterAttributeNamesSkippingEmpty(_, _)
SingleMeshImporterAttributeNamesSkippingEmpty(attributes, original) ==
    IF attributes = <<>> THEN <<>>
    ELSE (IF /\ isMeshAttributeCustom(attributes[1])
             /\ meshAttributeName(original, attributes[1]) # <<NoName>>
          THEN <<[id |-> attributes[1].id,
                  name |-> meshAttributeName(original, attributes[1])[1]]>>
          ELSE <<>>)
         \o SingleMeshImporterAttributeNamesSkippingEmpty(Tail(attributes),
                                                          original)

\* The constructor of SingleMeshImporter (546-554): one entry is appended for
\* every attribute of the mesh that is custom, with the name the original
\* importer has for it, empty names included
RECURSIVE SingleMeshImporterAttributeNames(_, _)
SingleMeshImporterAttributeNames(attributes, original) ==
    IF attributes = <<>> THEN <<>>
    ELSE (IF isMeshAttributeCustom(attributes[1])
          THEN <<[id |-> attributes[1].id,
                  name |-> meshAttributeName(original, attributes[1])[1]]>>
          ELSE <<>>)
         \o SingleMeshImporterAttributeNames(Tail(attributes), original)

\* The original importer is moved to previousImporter and the adapter with
\* the single mesh is emplaced; its constructor and the name argument read
\* the original importer (588-593)
CreateSingleMeshImporter ==
    /\ pc = "createSingleMeshImporter"
    /\ previousImporter' = importer
    /\ importer' = [kind |-> "single", id |-> nextImporterId, meshCount |-> -1,
                    mesh |-> mesh,
                    attributeNames |->
                        SingleMeshImporterAttributeNames(mesh[1].attributes,
                                                         importer),
                    name |-> SingleMeshImporterName(importer, mesh[1]),
                    hierarchy |-> <<>>]
    /\ nextImporterId' = nextImporterId + 1
    /\ mesh' = <<>>
    /\ calls' = calls \o SingleMeshImporterCalls(importer, mesh[1])
    /\ Goto("singleMeshImporterCreated")
    /\ UNCHANGED <<args, meshesToConcatenate, meshes, meshIndex,
                   meshConverterIndex, i, converter, isLastConverter,
                   contents>>

\* Variant of 594 where previousImporter outlives the single-mesh block
ReleasePreviousImporterLeaked ==
    /\ pc = "singleMeshImporterCreated"
    /\ Goto("preprocess")
    /\ UNCHANGED <<args, importer, previousImporter, nextImporterId, mesh,
                   meshesToConcatenate, meshes, meshIndex, meshConverterIndex,
                   i, converter, isLastConverter, contents, calls>>

\* The single-mesh block ends: previousImporter is destroyed (594)
ReleasePreviousImporter ==
    /\ pc = "singleMeshImporterCreated"
    /\ previousImporter' = NoImporter
    /\ Goto("preprocess")
    /\ UNCHANGED <<args, importer, nextImporterId, mesh,
                   meshesToConcatenate, meshes, meshIndex, meshConverterIndex,
                   i, converter, isLastConverter, contents, calls>>

(* ---- operations on all meshes, 596-684 --------------------------------- *)
PreprocessBegin ==
    /\ pc = "preprocess"
    /\ IF PreprocessingRequested
       THEN \E count \in (IF importer.kind = "single"
                            THEN {doMeshCount(importer)}
                            ELSE input.meshCounts) :
              /\ importer' = [importer EXCEPT !.meshCount = count]
              /\ Goto(IF count # 0 THEN "preprocessImport"
                      ELSE "converterLoop")
       ELSE /\ Goto("converterLoop")
            /\ UNCHANGED importer
    /\ meshIndex' = 0
    /\ UNCHANGED <<args, nextImporterId, mesh, meshesToConcatenate,
                   meshes, meshConverterIndex, i, converter, isLastConverter,
                   contents, calls>>
    /\ UNCHANGED previousImporter

PreprocessImportMesh ==
    /\ pc = "preprocessImport"
    /\ meshIndex < importer.meshCount
    /\ \E ok \in (IF importer.kind = "single" THEN {TRUE} ELSE BOOLEAN),
          primitive \in OtherMeshPrimitives, data \in input.meshData :
        /\ Log(Call("importer", -1, "mesh", ok, meshIndex, {}, importer.id))
        /\ IF ok
           THEN /\ mesh' = IF importer.kind = "single"
                           THEN doMesh(importer, meshIndex, 0)
                           ELSE <<MeshData(primitive, <<meshIndex>>, data)>>
                /\ Goto("removeDuplicates")
           ELSE /\ Return(1, "meshImport")
                /\ UNCHANGED mesh
    /\ UNCHANGED <<args, importer, nextImporterId, meshesToConcatenate,
                   meshes, meshIndex, meshConverterIndex, i, converter,
                   isLastConverter, contents>>
    /\ UNCHANGED previousImporter

\* Variant of 616-631 with one independent `if` per option
DuplicateRemovalPerOption(a) ==
    (IF a.removeDuplicateVertices
     THEN <<[op |-> "removeDuplicates", index |-> 0]>> ELSE <<>>)
    \o (IF a.removeDuplicateVerticesFuzzy
        THEN <<[op |-> "removeDuplicatesFuzzy", index |-> 0]>> ELSE <<>>)

\* The duplicate removal applied to a mesh: none, or the fuzzy one if
\* --remove-duplicate-vertices-fuzzy is given, else the exact one (616-631)
DuplicateRemoval(a) ==
    IF a.removeDuplicateVertices \/ a.removeDuplicateVerticesFuzzy
    THEN <<[op |-> IF a.removeDuplicateVerticesFuzzy
                   THEN "removeDuplicatesFuzzy"
                   ELSE "removeDuplicates",
            index |-> 0]>>
    ELSE <<>>

\* The vertex counts MeshTools::removeDuplicates() and removeDuplicatesFuzzy()
\* can leave of `count` vertices: at least one of them, at most all
RemainingVertexCounts(count) == IF count = 0 THEN {0} ELSE 1..count

\* Variant of 596-631 where the duplicate removal is done on the imported
\* mesh before anything else, the attribute filter included
RemoveDuplicatesBeforeFilter ==
    /\ pc = "removeDuplicates"
    /\ \E count \in (IF DuplicateRemoval(args) = <<>>
                     THEN {mesh[1].vertexCount}
                     ELSE RemainingVertexCounts(mesh[1].vertexCount)) :
          mesh' = <<[mesh[1] EXCEPT !.steps = DuplicateRemoval(args) \o @,
                                    !.vertexCount = count]>>
    /\ meshConverterIndex' = 0
    /\ Goto("meshConverters")
    /\ UNCHANGED <<args, importer, previousImporter, nextImporterId,
                   meshesToConcatenate, meshes, meshIndex, i, converter,
                   isLastConverter, contents, calls>>

RemoveDuplicates ==
    /\ pc = "removeDuplicates"
    /\ \E count \in (IF DuplicateRemoval(args) = <<>>
                     THEN {mesh[1].vertexCount}
                     ELSE RemainingVertexCounts(mesh[1].vertexCount)) :
          mesh' = <<[mesh[1] EXCEPT !.steps = @ \o DuplicateRemoval(args),
                                    !.vertexCount = count]>>
    /\ meshConverterIndex' = 0
    /\ Goto("meshConverters")
    /\ UNCHANGED <<args, importer, nextImporterId, meshesToConcatenate,
                   meshes, meshIndex, i, converter, isLastConverter,
                   contents, calls>>
    /\ UNCHANGED previousImporter

\* Variant of 669 that lets a converter with any conversion feature pass
SupportsMeshConversionAnyFeature(features) == features # {}

\* The check of a mesh converter (669)
SupportsMeshConversion(features) == "ConvertMesh" \in features

\* One iteration of the mesh converter loop: the converter is instantiated,
\* asked for its features (logged with whether it declares ConvertMesh),
\* converts the mesh and is destroyed (647-680). What convert() returns is
\* up to the plugin: the mesh as it was or in one of the other shapes.
MeshConverterStep ==
    /\ pc = "meshConverters"
    /\ meshConverterIndex < args.meshConverterCount
    /\ \E loaded \in MeshConverterLoads(meshConverterIndex),
          features \in SUBSET SceneConverterFeatures,
          converted \in BOOLEAN,
          data \in {[vertexCount |-> mesh[1].vertexCount,
                     attributes |-> mesh[1].attributes]} \cup input.converted :
        LET load == Call("meshConverter", meshConverterIndex,
                         "loadAndInstantiate", loaded, -1, {}, -1)
            asked == Call("meshConverter", meshConverterIndex, "features",
                          "ConvertMesh" \in features, -1, {}, -1)
            convert == Call("meshConverter", meshConverterIndex, "convert",
                            converted, meshIndex, {}, -1)
        IN  IF ~loaded
            THEN /\ calls' = Append(calls, load)
                 /\ Return(2, "converterNotFound")
                 /\ UNCHANGED <<mesh, meshConverterIndex>>
            ELSE IF ~SupportsMeshConversion(features)
            THEN /\ calls' = calls \o <<load, asked>>
                 /\ Return(1, "featureMismatch")
                 /\ UNCHANGED <<mesh, meshConverterIndex>>
            ELSE IF ~converted
            THEN /\ calls' = calls \o <<load, asked, convert>>
                 /\ Return(1, "meshConvert")
                 /\ UNCHANGED <<mesh, meshConverterIndex>>
            ELSE /\ calls' = calls \o <<load, asked, convert>>
                 /\ mesh' = <<[mesh[1] EXCEPT
                        !.steps = Append(@, [op |-> "convert",
                                             index |-> meshConverterIndex]),
                        !.vertexCount = data.vertexCount,
                        !.attributes = data.attributes]>>
                 /\ meshConverterIndex' = meshConverterIndex + 1
                 /\ Goto("meshConverters")
    /\ UNCHANGED <<args, importer, nextImporterId, meshesToConcatenate,
                   meshes, meshIndex, i, converter, isLastConverter,
                   contents>>
    /\ UNCHANGED previousImporter

PreprocessAppend ==
    /\ pc = "meshConverters"
    /\ meshConverterIndex = args.meshConverterCount
    /\ meshes' = Append(meshes, mesh[1])
    /\ mesh' = <<>>
    /\ meshIndex' = meshIndex + 1
    /\ Goto(IF meshIndex + 1 = importer.meshCount
            THEN "converterLoop" ELSE "preprocessImport")
    /\ UNCHANGED <<args, importer, nextImporterId, meshesToConcatenate,
                   meshConverterIndex, i, converter, isLastConverter,
                   contents, calls>>
    /\ UNCHANGED previousImporter

(* ---- the converter chain, 686-835 -------------------------------------- *)
\* Variant of 707 where only the final -C converter can be the last one
IsLastConverterOnlyFinalUser(index, converterCount, features) ==
    /\ index + 1 = converterCount
    /\ features \cap {"ConvertMeshToFile", "ConvertMultipleToFile"} # {}

\* Variant of 707 where only the implicit trailing converter can be the last
IsLastConverterOnlyTrailing(index, converterCount, features) ==
    /\ index >= converterCount
    /\ features \cap {"ConvertMeshToFile", "ConvertMultipleToFile"} # {}

\* Decide if this is the last converter, capable of saving to a file (707)
IsLastConverter(index, converterCount, features) ==
    /\ index + 1 >= converterCount
    /\ features \cap {"ConvertMeshToFile", "ConvertMultipleToFile"} # {}

\* Variant of 734 that lets any of the four conversion features pass
SupportsImporterConversionAnyFeature(features) ==
    features \cap {"ConvertMesh", "ConvertMultiple", "ConvertMeshToFile",
                   "ConvertMultipleToFile"} # {}

\* Variant of 734 that insists on ConvertMultiple
SupportsImporterConversionOnlyMultiple(features) ==
    "ConvertMultiple" \in features

\* The check of a non-last converter (734)
SupportsImporterConversion(features) ==
    features \cap {"ConvertMesh", "ConvertMultiple"} # {}

\* The call that opens the output of a converter (721-746)
BeginCall(last) == IF last THEN "beginFile" ELSE "begin"

\* Variant of 813-834 that finishes every converter with end()
EndCallAlwaysEnd(last) == "end"

\* The call that finishes a converter (813-834)
EndCall(last) == IF last THEN "endFile" ELSE "end"

\* Variant of 752 where the mask is declared outside the loop and carried
\* over from the previous stage
InitialContentsCarriedOver ==
    IF i = 0 THEN AllSceneContents ELSE contents

\* Contents to convert, by default all of them (752)
InitialContents == AllSceneContents

\* Variant of 830 where the result of end() is not stored
EndedImporterDiscarded(id) == importer

\* The importer instance a successful end() returns, which replaces the
\* current one (830)
EndedImporter(id) ==
    [NoImporter EXCEPT !.kind = "converted", !.id = id]

\* Variant of 815 with the test of the result inverted
EndFileExitCodeInverted(ok) == IF ok THEN 5 ELSE 0

\* What main() returns after endFile(): 5 if it failed (815-818), else the
\* loop is left and main() ends with 0 (820, 842)
EndFileExitCode(ok) == IF ok THEN 0 ELSE 5

\* "No verbose output for just one converter" (709-710)
ProgressReported == args.converterCount > 1 /\ args.verbose

\* Variant of 714 that asserts that the stage is before the final -C option
AssertedStageBeforeFinal(index, converterCount) == index + 1 < converterCount

\* CORRADE_INTERNAL_ASSERT(i < converterCount) (714)
AssertedStage(index, converterCount) == index < converterCount

\* The progress message of a stage (710-717), logged with the two numbers
\* it prints: "Saving output (i+1/converterCount)" for the last converter,
\* "Processing (i+1/converterCount)" for the others
ProgressMessages(index, converterCount, last) ==
    IF ProgressReported
    THEN <<NameCall("debug", index,
                    IF last THEN "Saving output" ELSE "Processing", -1,
                    <<index + 1, converterCount>>, -1)>>
    ELSE <<>>

\* Load converter plugin, decide if it is the last one and report the
\* progress (692-717). Where the assertion of 714 does not hold the process
\* is aborted or, in a build with the assertions compiled out, goes on.
ConverterInstantiate ==
    /\ pc = "converterLoop"
    /\ i <= args.converterCount
    /\ \E ok \in ConverterLoads(i),
          features \in SUBSET SceneConverterFeatures :
        LET last == IsLastConverter(i, args.converterCount, features)
            load == Call("converter", i, "loadAndInstantiate", ok,
                         -1, {}, -1)
            held == ~ProgressReported \/ last
                    \/ AssertedStage(i, args.converterCount)
        IN  /\ i = args.converterCount => features = AnySceneConverterFeatures
            /\ IF ok
               THEN \E asserted \in (IF held THEN {FALSE} ELSE BOOLEAN) :
                      IF asserted
                      THEN /\ calls' = Append(calls, load)
                           /\ Abort("progressAssertion")
                           /\ UNCHANGED <<converter, isLastConverter>>
                      ELSE /\ calls' = Append(calls, load)
                               \o ProgressMessages(i, args.converterCount,
                                                   last)
                           /\ converter' = [stage |-> i,
                                            features |-> features,
                                            state |-> "Created"]
                           /\ isLastConverter' = last
                           /\ Goto("converterBegin")
               ELSE /\ calls' = Append(calls, load)
                    /\ Return(2, "converterNotFound")
                    /\ UNCHANGED <<converter, isLastConverter>>
    /\ UNCHANGED <<args, importer, nextImporterId, mesh, meshesToConcatenate,
                   meshes, meshIndex, meshConverterIndex, i, contents>>
    /\ UNCHANGED previousImporter

\* beginFile() of the last converter, feature check and begin() of the
\* others, and the initial content mask (719-752)
ConverterBegin ==
    /\ pc = "converterBegin"
    /\ IF isLastConverter
       THEN \E ok \in BOOLEAN :
              /\ Log(Call("converter", i, BeginCall(isLastConverter), ok, -1, {}, -1))
              /\ IF ok
                 THEN /\ converter' = [converter EXCEPT !.state = "BegunFile"]
                      /\ contents' = InitialContents
                      /\ Goto(IF meshes # <<>> THEN "looseMeshes"
                              ELSE "addImporterContents")
                 ELSE /\ Return(1, "begin")
                      /\ UNCHANGED <<converter, contents>>
       ELSE IF ~SupportsImporterConversion(converter.features)
       THEN /\ Return(6, "featureMismatch")
            /\ UNCHANGED <<converter, contents, calls>>
       ELSE \E ok \in BOOLEAN :
              /\ Log(Call("converter", i, BeginCall(isLastConverter), ok, -1, {}, -1))
              /\ IF ok
                 THEN /\ converter' = [converter EXCEPT !.state = "Began"]
                      /\ contents' = InitialContents
                      /\ Goto(IF meshes # <<>> THEN "looseMeshes"
                              ELSE "addImporterContents")
                 ELSE /\ Return(1, "begin")
                      /\ UNCHANGED <<converter, contents>>
    /\ meshIndex' = 0
    /\ UNCHANGED <<args, importer, nextImporterId, mesh, meshesToConcatenate,
                   meshes, meshConverterIndex, i, isLastConverter>>
    /\ UNCHANGED previousImporter

\* The custom attributes among `attributes`, in order
CustomAttributes(attributes) == SelectSeq(attributes, isMeshAttributeCustom)

\* The names every importer and every garbage value can be
AnyNames == {NoName} \cup {input.names[id] : id \in DOMAIN input.names}

\* The name the importer gives for a custom attribute, or `garbage` where
\* the lookup runs into CORRADE_INTERNAL_ASSERT_UNREACHABLE() (571)
LookedUpName(name, garbage) ==
    IF meshAttributeName(importer, name) = <<>> THEN garbage
    ELSE meshAttributeName(importer, name)[1]

\* Variant of 778-780 that forwards the empty names too
RECURSIVE PropagateAttributeNamesWithEmpty(_, _)
PropagateAttributeNamesWithEmpty(custom, garbage) ==
    IF custom = <<>> THEN <<>>
    ELSE <<[NameCall("importer", -1, "meshAttributeName", custom[1].id,
                     LookedUpName(custom[1], garbage), importer.id)
            EXCEPT !.ok = meshAttributeName(importer, custom[1]) # <<>>],
           NameCall("converter", i, "setMeshAttributeName", custom[1].id,
                    LookedUpName(custom[1], garbage), importer.id)>>
         \o PropagateAttributeNamesWithEmpty(Tail(custom), garbage)

\* The name propagation of one loose mesh (765-781): the name of every custom
\* attribute is looked up in the importer and, unless it is empty, passed to
\* the converter. A lookup that runs into the unreachable assertion is
\* logged as failed.
RECURSIVE PropagateAttributeNames(_, _)
PropagateAttributeNames(custom, garbage) ==
    IF custom = <<>> THEN <<>>
    ELSE <<[NameCall("importer", -1, "meshAttributeName", custom[1].id,
                     LookedUpName(custom[1], garbage), importer.id)
            EXCEPT !.ok = meshAttributeName(importer, custom[1]) # <<>>]>>
         \o (IF LookedUpName(custom[1], garbage) # NoName
             THEN <<NameCall("converter", i, "setMeshAttributeName",
                             custom[1].id, LookedUpName(custom[1], garbage),
                             importer.id)>>
             ELSE <<>>)
         \o PropagateAttributeNames(Tail(custom), garbage)

\* The lookups up to and including the first that runs into the assertion
RECURSIVE UntilUnreachable(_)
UntilUnreachable(log) ==
    IF log = <<>> THEN <<>>
    ELSE IF log[1].op = "meshAttributeName" /\ ~log[1].ok THEN <<log[1]>>
    ELSE <<log[1]>> \o UntilUnreachable(Tail(log))

\* Variant of 758 that takes every converter to accept meshes
AcceptsMeshesAlways(features) == TRUE

\* Whether the loose meshes are added to the converter (758)
AcceptsMeshes(features) == "Meshes" \in sceneContentsFor(features)

\* Variant of 783 that asks for the name of mesh 0 for every loose mesh
AddedMeshNameOfFirst(index) ==
    IF "Names" \in contents THEN meshName(importer, 0) ELSE NoName

\* The name passed to add() with loose mesh `index` (783)
AddedMeshName(index) ==
    IF "Names" \in contents THEN meshName(importer, index) ELSE NoName

\* One iteration of the loose mesh loop (760-787): the custom attribute names
\* of the mesh are propagated, then the mesh is added with its name. If a name lookup hits
\* the unreachable assertion of the adapter the process is aborted there or,
\* in a build with the assertions compiled out, goes on with a garbage name.
ConverterAddMesh ==
    /\ pc = "looseMeshes"
    /\ AcceptsMeshes(converter.features)
    /\ meshIndex < Len(meshes)
    /\ LET custom == CustomAttributes(meshes[meshIndex + 1].attributes)
           unreachable ==
               \E k \in 1..Len(custom) :
                   meshAttributeName(importer, custom[k]) = <<>>
       IN  \E ok \in BOOLEAN,
              asserted \in (IF unreachable THEN BOOLEAN ELSE {FALSE}),
              garbage \in (IF unreachable THEN AnyNames ELSE {NoName}) :
             IF asserted
             THEN /\ calls' = calls \o UntilUnreachable(
                                  PropagateAttributeNames(custom, garbage))
                  /\ Abort("unreachable")
                  /\ UNCHANGED meshIndex
             ELSE /\ calls' = calls
                        \o PropagateAttributeNames(custom, garbage)
                        \o <<[Call("converter", i, "add", ok, meshIndex,
                                   contents, importer.id)
                              EXCEPT !.name = AddedMeshName(meshIndex)]>>
                  /\ IF ok
                     THEN /\ meshIndex' = meshIndex + 1
                          /\ Goto("looseMeshes")
                     ELSE /\ Return(1, "add")
                          /\ UNCHANGED meshIndex
    /\ UNCHANGED <<args, importer, nextImporterId, mesh, meshesToConcatenate,
                   meshes, meshConverterIndex, i, converter, isLastConverter,
                   contents>>
    /\ UNCHANGED previousImporter

\* Variant of 789-800 where line 793 clears Names instead of Meshes
ConverterClearMeshesWrongContent ==
    /\ pc = "looseMeshes"
    /\ \/ "Meshes" \notin sceneContentsFor(converter.features)
       \/ meshIndex = Len(meshes)
    /\ contents' = contents \ {"Names"}
    /\ meshes' = <<>>
    /\ Goto("addImporterContents")
    /\ UNCHANGED <<args, importer, previousImporter, nextImporterId, mesh,
                   meshesToConcatenate, meshIndex, meshConverterIndex, i,
                   converter, isLastConverter, calls>>

\* Variant of 789-800 without line 800: the loose array is kept
ConverterClearMeshesKeepArray ==
    /\ pc = "looseMeshes"
    /\ \/ "Meshes" \notin sceneContentsFor(converter.features)
       \/ meshIndex = Len(meshes)
    /\ contents' = contents \ {"Meshes"}
    /\ Goto("addImporterContents")
    /\ UNCHANGED <<args, importer, previousImporter, nextImporterId, mesh,
                   meshesToConcatenate, meshes, meshIndex, meshConverterIndex,
                   i, converter, isLastConverter, calls>>

\* Variant of 789-800 without line 793: Meshes stays in the mask
ConverterClearMeshesKeepMask ==
    /\ pc = "looseMeshes"
    /\ \/ "Meshes" \notin sceneContentsFor(converter.features)
       \/ meshIndex = Len(meshes)
    /\ meshes' = <<>>
    /\ Goto("addImporterContents")
    /\ UNCHANGED <<args, importer, nextImporterId, mesh, meshesToConcatenate,
                   meshIndex, meshConverterIndex, i, converter,
                   isLastConverter, contents, calls>>
    /\ UNCHANGED previousImporter

\* After the loop, or instead of it if the converter takes no meshes:
\* Meshes leaves the mask and the loose array is deleted (757-759, 789-800)
ConverterClearMeshes ==
    /\ pc = "looseMeshes"
    /\ \/ ~AcceptsMeshes(converter.features)
       \/ meshIndex = Len(meshes)
    /\ contents' = contents \ {"Meshes"}
    /\ meshes' = <<>>
    /\ Goto("addImporterContents")
    /\ UNCHANGED <<args, importer, nextImporterId, mesh, meshesToConcatenate,
                   meshIndex, meshConverterIndex, i, converter,
                   isLastConverter, calls>>
    /\ UNCHANGED previousImporter

\* converter->addSupportedImporterContents(*importer, contents) (803-809)
ConverterAddImporterContents ==
    /\ pc = "addImporterContents"
    /\ \E ok \in BOOLEAN :
        /\ Log(Call("converter", i, "addSupportedImporterContents", ok,
                    -1, contents, importer.id))
        /\ IF ok THEN Goto("converterEnd") ELSE Return(5, "add")
    /\ UNCHANGED <<args, importer, nextImporterId, mesh, meshesToConcatenate,
                   meshes, meshIndex, meshConverterIndex, i, converter,
                   isLastConverter, contents>>
    /\ UNCHANGED previousImporter

\* Variant of 811-835 without the break of line 820: after endFile() the
\* loop goes on with the next converter, if there is one
ConverterEndWithoutBreak ==
    /\ pc = "converterEnd"
    /\ \E ok \in BOOLEAN :
          /\ Log(Call("converter", i, EndCall(isLastConverter), ok, -1, {},
                      IF ok /\ ~isLastConverter THEN nextImporterId ELSE -1))
          /\ IF ok
             THEN /\ importer' = IF isLastConverter THEN importer
                                 ELSE EndedImporter(nextImporterId)
                  /\ nextImporterId' = IF isLastConverter THEN nextImporterId
                                       ELSE nextImporterId + 1
                  /\ converter' = NoConverter
                  /\ i' = i + 1
                  /\ IF i + 1 <= args.converterCount
                     THEN Goto("converterLoop")
                     ELSE Return(0, "none")
             ELSE /\ Return(IF isLastConverter THEN 5 ELSE 1, "finalize")
                  /\ UNCHANGED <<importer, nextImporterId, converter, i>>
    /\ UNCHANGED <<args, previousImporter, mesh, meshesToConcatenate, meshes,
                   meshIndex, meshConverterIndex, isLastConverter, contents>>

\* endFile() and break, or end() and the next loop iteration (811-835)
ConverterEnd ==
    /\ pc = "converterEnd"
    /\ IF isLastConverter
       THEN \E ok \in BOOLEAN :
              /\ Log(Call("converter", i, EndCall(isLastConverter), ok, -1, {}, -1))
              /\ IF ok
                 THEN /\ converter' = [converter EXCEPT !.state = "EndedFile"]
                      /\ Return(EndFileExitCode(ok), "none")
                 ELSE /\ Return(EndFileExitCode(ok), "finalize")
                      /\ UNCHANGED converter
              /\ UNCHANGED <<importer, nextImporterId, i>>
       ELSE \E ok \in BOOLEAN :
              /\ Log(Call("converter", i, EndCall(isLastConverter), ok, -1, {},
                          IF ok THEN nextImporterId ELSE -1))
              /\ IF ok
                 THEN /\ importer' = EndedImporter(nextImporterId)
                      /\ nextImporterId' = nextImporterId + 1
                      /\ converter' = NoConverter
                      /\ i' = i + 1
                      /\ IF i + 1 <= args.converterCount
                         THEN Goto("converterLoop")
                         ELSE Return(0, "none")
                 ELSE /\ importer' = NoImporter
                      /\ Return(1, "finalize")
                      /\ UNCHANGED <<nextImporterId, converter, i>>
    /\ UNCHANGED <<args, mesh, meshesToConcatenate, meshes, meshIndex,
                   meshConverterIndex, isLastConverter, contents>>
    /\ UNCHANGED previousImporter

Next ==
    \/ ParseArguments
    \/ CheckOptions
    \/ LoadImporter
    \/ OpenInput
    \/ PrintInfo
    \/ ConcatenateBegin
    \/ ConcatenateImportMesh
    \/ ConcatenateFlatten
    \/ ConcatenateMeshes
    \/ ImportSingleMesh
    \/ FilterAttributes
    \/ CreateSingleMeshImporter
    \/ ReleasePreviousImporter
    \/ PreprocessBegin
    \/ PreprocessImportMesh
    \/ RemoveDuplicates
    \/ MeshConverterStep
    \/ PreprocessAppend
    \/ ConverterInstantiate
    \/ ConverterBegin
    \/ ConverterAddMesh
    \/ ConverterClearMeshes
    \/ ConverterAddImporterContents
    \/ ConverterEnd

Spec == Init /\ [][Next]_vars

\* The runs that convert whole meshes: without --mesh-level,
\* --only-mesh-attributes and --remove-duplicate-vertices-fuzzy
InitConversion ==
    InitOf({a \in Args : /\ ~a.meshLevel
                         /\ ~a.onlyMeshAttributes
                         /\ ~a.removeDuplicateVerticesFuzzy}, PlainInputs)

\* main() is one sequential thread that no one stops: whenever it has a next
\* statement it executes it
FairSpec == InitConversion /\ [][Next]_vars /\ WF_vars(Next)

\* The runs without -C options and with up to MaxMeshChain -M options: the
\* mesh preprocessing with a chain of mesh converters
MeshChainArgs == ArgsOf({FALSE}, {TRUE}, 0..MaxMeshChain, {0})

InitMeshChain == InitOf(MeshChainArgs, PlainInputs)

SpecMeshChain == InitMeshChain /\ [][Next]_vars

\* The runs on meshes with custom attributes and with vertex counts that
\* differ: no -C options, at most one -M option, neither --mesh-level nor
\* the fuzzy duplicate removal, --info on its own
MeshDataArgs ==
    {a \in ArgsOf({FALSE}, {TRUE}, {0, 1}, {0}) :
        /\ ~a.meshLevel
        /\ ~a.removeDuplicateVerticesFuzzy
        /\ a.info => /\ ~a.mesh /\ ~a.concatenateMeshes
                     /\ ~a.onlyMeshAttributes /\ ~a.removeDuplicateVertices
                     /\ a.meshConverterCount = 0}

CustomIds == {0, 1}

\* The attribute lists of the meshes: one custom attribute without a name,
\* one with a name, the same custom attribute twice, a builtin and a custom
\* attribute, two custom attributes
AttributeLists ==
    {<<meshAttributeCustom(0)>>,
     <<meshAttributeCustom(1)>>,
     <<meshAttributeCustom(1), meshAttributeCustom(1)>>,
     <<Position, meshAttributeCustom(0)>>,
     <<meshAttributeCustom(0), meshAttributeCustom(1)>>}

AttributeMeshCounts == {1, 2}

\* The names the input file has for its custom attributes: none for
\* attribute 0, the one-character name <<id>> for the others
FileNames == [id \in CustomIds |-> IF id = 0 THEN NoName ELSE <<id>>]

\* Input files whose meshes all have the same list of attributes, and mesh
\* converters that either keep the attributes or append one custom attribute
AttributeInputs ==
    UNION {
        {[meshCounts |-> AttributeMeshCounts,
          primitives |-> MeshPrimitives,
          meshData |-> {[vertexCount |-> 1, attributes |-> attributes]},
          names |-> FileNames,
          only |-> {<<0>>, <<1, 0>>},
          converted |-> converted,
          hierarchyLengths |-> 0..MaxFlattened,
          plugins |-> AnyPlugins] :
            converted \in {{}} \cup
                {{[vertexCount |-> 1,
                   attributes |->
                       Append(attributes, meshAttributeCustom(id))]} :
                 id \in CustomIds}} :
        attributes \in AttributeLists}

\* An input file with meshes of four vertices with positions and normals and
\* meshes of three vertices with positions only, each of them triangles,
\* lines or a triangle strip
VertexInputs ==
    {[meshCounts |-> 0..MaxMeshes,
      primitives |-> MeshPrimitives \cup {"TriangleStrip"},
      meshData |-> {[vertexCount |-> 4, attributes |-> <<Position, Normal>>],
                    [vertexCount |-> 3, attributes |-> <<Position>>]},
      names |-> <<>>,
      only |-> {<<0>>},
      converted |-> {},
      hierarchyLengths |-> 0..MaxFlattened,
      plugins |-> AnyPlugins]}

\* An input file with two triangle meshes, of four and of three vertices,
\* and a scene whose hierarchy has two mesh entries: each mesh once in either
\* order, or one mesh twice and the other not at all
HierarchyInputs ==
    {[meshCounts |-> {2},
      primitives |-> {"Triangles"},
      meshData |-> {[vertexCount |-> 4, attributes |-> <<Position, Normal>>],
                    [vertexCount |-> 3, attributes |-> <<Position>>]},
      names |-> <<>>,
      only |-> {<<0>>},
      converted |-> {},
      hierarchyLengths |-> {2},
      plugins |-> AnyPlugins]}

InitMeshData ==
    InitOf(MeshDataArgs,
           AttributeInputs \cup VertexInputs \cup HierarchyInputs)

SpecMeshData == InitMeshData /\ [][Next]_vars

\* The runs with and without --map and with and without the output
\* argument: no -C options, -M options up to MaxMeshConverters
CommandLineArgs == ArgsOf(BOOLEAN, BOOLEAN, 0..MaxMeshConverters, {0})

InitCommandLine == InitOf(CommandLineArgs, PlainInputs)

SpecCommandLine == InitCommandLine /\ [][Next]_vars

\* The runs with --verbose and up to MaxConverters -C options: the progress
\* messages of the converter chain
VerboseArgs ==
    {[a EXCEPT !.verbose = TRUE] :
        a \in {b \in Args : /\ ~b.meshLevel
                            /\ ~b.onlyMeshAttributes
                            /\ ~b.removeDuplicateVerticesFuzzy}}

InitVerbose == InitOf(VerboseArgs, PlainInputs)

SpecVerbose == InitVerbose /\ [][Next]_vars

\* The runs where it is fixed from the start which of the plugin names given
\* with -M and -C are installed; the implicit AnySceneConverter always is
PluginArgs ==
    {a \in Args : /\ ~a.meshLevel
                  /\ ~a.onlyMeshAttributes
                  /\ ~a.removeDuplicateVerticesFuzzy}

PluginInputs ==
    {[plain EXCEPT !.plugins =
          [known |-> TRUE, missingMeshConverters |-> missingMeshConverters,
           missingConverters |-> missingConverters]] :
        plain \in PlainInputs,
        missingMeshConverters \in SUBSET (0..(MaxMeshConverters - 1)),
        missingConverters \in SUBSET (0..(MaxConverters - 1))}

InitPlugins == InitOf(PluginArgs, PluginInputs)

SpecPlugins == InitPlugins /\ [][Next]_vars

\* The variables of main()
mainVars ==
    <<args, pc, exitCode, failure, importer, previousImporter,
      nextImporterId, mesh, meshesToConcatenate, meshes, meshIndex,
      meshConverterIndex, i, converter, isLastConverter, contents, calls,
      input, teardown>>

\* magnum-sceneconverter input output
NoOptions ==
    [mesh |-> FALSE, meshLevel |-> FALSE, concatenateMeshes |-> FALSE,
     onlyMeshAttributes |-> FALSE, info |-> FALSE,
     removeDuplicateVertices |-> FALSE,
     removeDuplicateVerticesFuzzy |-> FALSE,
     meshConverterCount |-> 0, converterCount |-> 0,
     map |-> FALSE, output |-> TRUE, verbose |-> FALSE]

(* ---- MeshTools::generateFlatNormals(), GenerateNormals.h 42-69 --------- *)
\* Vector3 values with small integer coordinates
Points == {<<0, 0, 0>>, <<1, 0, 0>>, <<0, 1, 0>>, <<0, 0, 1>>}

Zero == <<0, 0, 0>>

minus(u, v) == <<u[1] - v[1], u[2] - v[2], u[3] - v[3]>>

cross(u, v) ==
    <<u[2] * v[3] - u[3] * v[2],
      u[3] * v[1] - u[1] * v[3],
      u[1] * v[2] - u[2] * v[1]>>

\* The normal of the triangle face (a, b, c): the direction of the cross
\* product of two of its edges; its length is left out
faceNormal(a, b, c) == cross(minus(b, a), minus(c, a))

\* Variant of generateFlatNormals() that returns one normal per face
flatNormalsPerFace(triangles) ==
    [t \in 1..(Len(triangles) \div 3) |->
        faceNormal(triangles[3 * t - 2], triangles[3 * t - 1],
                   triangles[3 * t])]

\* The normals of generateFlatNormals(): "All vertices in each triangle face
\* get the same normal vector", one normal per position (44-47)
flatNormals(triangles) ==
    [k \in 1..Len(triangles) |->
        LET first == 3 * ((k - 1) \div 3) + 1
        IN  faceNormal(triangles[first], triangles[first + 1],
                       triangles[first + 2])]

\* "Expects that the position count is divisible by 3" (47)
PositionCountExpected == Len(positions) % 3 = 0

\* "The normals array is expected to have the same size as positions" (65)
NormalsSizeExpected == Len(normals) = Len(positions)

\* What a call does when an expectation is not met: the assertion of the
\* function fires, or, in a build without assertions, anything may happen
Unexpected == {"asserted", "undefined"}

\* generateFlatNormals(positions): a new array is returned, unless the
\* expectation is not met
GenerateFlatNormals ==
    /\ generated = "no"
    /\ IF PositionCountExpected
       THEN /\ normals' = flatNormals(positions)
            /\ generated' = "returned"
       ELSE /\ normals' = <<>>
            /\ generated' \in Unexpected
    /\ UNCHANGED <<mainVars, positions, shaders>>

\* generateFlatNormalsInto(positions, normals): the array given is filled,
\* unless an expectation is not met
GenerateFlatNormalsInto ==
    /\ generated = "no"
    /\ IF PositionCountExpected /\ NormalsSizeExpected
       THEN /\ normals' = [k \in DOMAIN normals |-> flatNormals(positions)[k]]
            /\ generated' = "filled"
       ELSE /\ generated' \in Unexpected
            /\ UNCHANGED normals
    /\ UNCHANGED <<mainVars, positions, shaders>>

NextNormals == GenerateFlatNormals \/ GenerateFlatNormalsInto

\* Up to MaxTriangles triangles, complete or not, and an array for the
\* normals of any size up to theirs
InitNormals ==
    /\ MainInit({NoOptions}, PlainInputs)
    /\ ShadersIdle
    /\ positions \in UNION {[1..n -> Points] : n \in 0..(3 * MaxTriangles)}
    /\ normals \in {[k \in 1..n |-> Zero] : n \in 0..(3 * MaxTriangles)}
    /\ generated = "no"

SpecNormals == InitNormals /\ [][NextNormals]_vars

(* ---- moving a shader, DistanceFieldVectorGLTest.cpp 75-107 ------------- *)
\* The instances a test declares
Instances == {"a", "b", "c"}

\* Variant of the move constructor that leaves the id in the source too
MoveConstructedCopying(ids, to, from) ==
    [x \in DOMAIN ids \cup {to} |-> IF x = to THEN ids[from] ELSE ids[x]]

\* DistanceFieldVector b{std::move(a)}: the new instance takes the GL object
\* of the source, which is left with id 0 (81-83, 98-100)
MoveConstructed(ids, to, from) ==
    [x \in DOMAIN ids \cup {to} |->
        IF x = to THEN ids[from] ELSE IF x = from THEN 0 ELSE ids[x]]

\* c = std::move(b): the two instances exchange their GL objects, so a
\* NoCreate destination leaves the source with id 0 (85-89, 102-106)
MoveAssigned(ids, to, from) ==
    [x \in DOMAIN ids |->
        IF x = to THEN ids[from] ELSE IF x = from THEN ids[to] ELSE ids[x]]

\* DistanceFieldVector a: a GL object with a new, non-zero id is created
\* (76-78, 93-95)
ShaderConstruct ==
    \E x \in Instances \ DOMAIN shaders.id,
       gl \in (1..MaxShaderId) \ shaders.created :
        /\ shaders' = [shaders EXCEPT
               !.id = [y \in DOMAIN @ \cup {x} |->
                          IF y = x THEN gl ELSE @[y]],
               !.created = @ \cup {gl},
               !.moved = <<>>]
        /\ UNCHANGED <<mainVars, positions, normals, generated>>

\* DistanceFieldVector c{NoCreate}: an instance without a GL object (85, 102)
ShaderConstructNoCreate ==
    \E x \in Instances \ DOMAIN shaders.id :
        /\ shaders' = [shaders EXCEPT
               !.id = [y \in DOMAIN @ \cup {x} |->
                          IF y = x THEN 0 ELSE @[y]],
               !.moved = <<>>]
        /\ UNCHANGED <<mainVars, positions, normals, generated>>

\* DistanceFieldVector b{std::move(a)} (81, 98)
ShaderMoveConstruct ==
    \E x \in Instances \ DOMAIN shaders.id, y \in DOMAIN shaders.id :
        /\ shaders' = [shaders EXCEPT
               !.id = MoveConstructed(@, x, y),
               !.moved = <<[to |-> x, from |-> y, id |-> shaders.id[y],
                            replaced |-> 0]>>]
        /\ UNCHANGED <<mainVars, positions, normals, generated>>

\* c = std::move(b) (86, 103)
ShaderMoveAssign ==
    \E x \in DOMAIN shaders.id : \E y \in DOMAIN shaders.id \ {x} :
        /\ shaders' = [shaders EXCEPT
               !.id = MoveAssigned(@, x, y),
               !.moved = <<[to |-> x, from |-> y, id |-> shaders.id[y],
                            replaced |-> shaders.id[x]]>>]
        /\ UNCHANGED <<mainVars, positions, normals, generated>>

NextShaders ==
    \/ ShaderConstruct
    \/ ShaderConstructNoCreate
    \/ ShaderMoveConstruct
    \/ ShaderMoveAssign

\* The 2D or the 3D shader, no instance declared yet
InitShaders ==
    /\ MainInit({NoOptions}, PlainInputs)
    /\ NormalsIdle
    /\ shaders \in {[dimensions |-> d, id |-> <<>>, created |-> {},
                      moved |-> <<>>] : d \in {2, 3}}

SpecShaders == InitShaders /\ [][NextShaders]_vars

(* ======================================================================= *)
(* Properties                                                              *)
(* ======================================================================= *)
\* the calls made on the converter of stage s, instantiation included
ConverterCalls(s) ==
    SelectSeq(calls, LAMBDA c : c.target = "converter" /\ c.stage = s)

\* whether stage s received a call `op`
Called(s, op) ==
    \E k \in 1..Len(calls) :
        calls[k].target = "converter" /\ calls[k].stage = s
        /\ calls[k].op = op

FileFeatures == {"ConvertMeshToFile", "ConvertMultipleToFile"}

\* the run left the option checks
OptionsChecked == pc \notin {"parseArguments", "checkOptions"}

C2_MeshLevelWithoutMeshRejected ==
    (args.meshLevel /\ ~args.mesh /\ OptionsChecked) =>
        /\ pc = "done" /\ exitCode = 1
        /\ calls = <<>>
        /\ importer = NoImporter /\ converter = NoConverter

C2_Witness ==
    args.meshLevel /\ ~args.mesh /\ args.info /\ pc = "done" /\ exitCode = 1

\* every mesh value the run holds at the moment
HeldMeshes ==
    {mesh[k] : k \in 1..Len(mesh)}
    \cup {meshes[k] : k \in 1..Len(meshes)}
    \cup {meshesToConcatenate[k] : k \in 1..Len(meshesToConcatenate)}
    \cup {importer.mesh[k] : k \in 1..Len(importer.mesh)}

\* how often the attribute filter was applied to the mesh
FilterCount(m) ==
    Cardinality({k \in 1..Len(m.steps) : m.steps[k].op = "filterAttributes"})

\* C3: --only-mesh-attributes without --mesh and --concatenate-meshes ends
\* the run with exit code 1 before any plugin is touched; and whenever the
\* filter has been applied, it was applied once, in a single-mesh run, to the
\* one mesh in scope (every mesh held then derives from that one mesh).
C3_AttributeFilterOnlyOnSingleMesh ==
    /\ (args.onlyMeshAttributes /\ ~args.mesh /\ ~args.concatenateMeshes
        /\ OptionsChecked) =>
            (pc = "done" /\ exitCode = 1 /\ calls = <<>>
             /\ importer = NoImporter)
    /\ \A m \in HeldMeshes :
            FilterCount(m) > 0 =>
                /\ FilterCount(m) = 1
                /\ singleMesh /\ args.onlyMeshAttributes
                /\ \A other \in HeldMeshes : other.origin = m.origin
                /\ Len(meshes) <= 1

\* the filter was applied to the concatenated mesh, which then is the one
\* loose mesh handed to the converter chain
C3_Witness ==
    /\ args.onlyMeshAttributes /\ args.concatenateMeshes
    /\ pc = "looseMeshes"
    /\ Len(meshes) = 1 /\ FilterCount(meshes[1]) = 1

\* the failure categories that are to be told apart by the exit code
FailureCategories ==
    {"options", "open", "meshImport", "converterNotFound", "featureMismatch",
     "add", "finalize"}

\* the category each exit code stands for where main() first returns it:
\* 1 at 364, 2 at 660, 3 at 420, 4 at 515, 5 at 807, 6 at 736
CategoryOfExitCode ==
    [c \in 1..6 |->
        CASE c = 1 -> "options"
          [] c = 2 -> "converterNotFound"
          [] c = 3 -> "open"
          [] c = 4 -> "meshImport"
          [] c = 5 -> "add"
          [] c = 6 -> "featureMismatch"]

\* C4: the exit code of a failed run identifies its failure category: a run
\* that failed in one of the seven categories returns a code that no failure
\* of another category returns.
C4_ExitCodeIdentifiesCategory ==
    (pc = "done" /\ failure \in FailureCategories) =>
        /\ exitCode \in 1..6
        /\ CategoryOfExitCode[exitCode] = failure

\* One step of the begin/add/end protocol of a converter instance, as seen
\* from outside: the state after call c was made in state st. "Failed" is a
\* call that reported failure, "Error" a call the protocol does not allow.
ProtocolStep(st, c) ==
    CASE st = "None" /\ c.op = "loadAndInstantiate" ->
            IF c.ok THEN "Created" ELSE "Failed"
      [] st = "Created" /\ c.op = "begin" ->
            IF c.ok THEN "Began" ELSE "Failed"
      [] st = "Created" /\ c.op = "beginFile" ->
            IF c.ok THEN "BegunFile" ELSE "Failed"
      [] st \in {"Began", "BegunFile"} /\ c.op = "add" ->
            IF c.ok THEN st ELSE "Failed"
      [] st \in {"Began", "BegunFile"} /\ c.op = "setMeshAttributeName" ->
            st
      [] st = "Began" /\ c.op = "addSupportedImporterContents" ->
            IF c.ok THEN "Added" ELSE "Failed"
      [] st = "BegunFile" /\ c.op = "addSupportedImporterContents" ->
            IF c.ok THEN "AddedFile" ELSE "Failed"
      [] st = "Added" /\ c.op = "end" ->
            IF c.ok THEN "Ended" ELSE "Failed"
      [] st = "AddedFile" /\ c.op = "endFile" ->
            IF c.ok THEN "EndedFile" ELSE "Failed"
      [] OTHER -> "Error"

RECURSIVE ProtocolState(_, _)
ProtocolState(st, log) ==
    IF log = <<>> THEN st
    ELSE ProtocolState(ProtocolStep(st, Head(log)), Tail(log))

StageState(s) == ProtocolState("None", ConverterCalls(s))

Stages == 0..(MaxConverters + 1)

\* C5: the calls made on each converter instance follow the protocol
\* begin|beginFile, add*, addSupportedImporterContents, end|endFile, in that
\* order, nothing after a failed call or after the end; a stage begun with
\* begin() is ended with end() and one begun with beginFile() with endFile();
\* beginFile() goes to the last converter only; every stage the chain has
\* left went through the whole protocol, as did the last one of a run that
\* succeeded; and the calls of different stages do not interleave.
C5_ConverterProtocol ==
    /\ \A s \in Stages :
        LET st == StageState(s)
        IN  /\ st # "Error"
            /\ s < i => st = "Ended"
            /\ s > i => st = "None"
            /\ st \in {"BegunFile", "AddedFile", "EndedFile"} =>
                    s = i /\ isLastConverter
            /\ st \in {"Began", "Added"} => s = i /\ ~isLastConverter
    /\ (pc = "done" /\ exitCode = 0 /\ ~args.info) =>
            StageState(i) = "EndedFile"
    /\ LET made == SelectSeq(calls, LAMBDA c : c.target = "converter")
       IN  \A k \in 1..(Len(made) - 1) : made[k].stage <= made[k + 1].stage

C5_Witness ==
    /\ args.converterCount = 2 /\ Len(meshes) = 0
    /\ StageState(0) = "Ended" /\ StageState(1) = "Ended"
    /\ StageState(2) = "EndedFile"
    /\ Called(0, "add")

\* whether the current converter was opened as the file-writing stage
RunsAsLast == Called(converter.stage, "beginFile")

\* the current converter was instantiated and the decision of 707-746 acted
StageDecided == converter.stage = i /\ converter.stage >= 0
                /\ pc # "converterBegin"

\* C6 as stated: a stage is run as the last, file-writing stage exactly when
\* it is the final -C converter (i = n-1) and declares file output.
C6_LastOnlyFinalUserStage ==
    StageDecided =>
        (RunsAsLast <=>
            (i = args.converterCount - 1
             /\ converter.features \cap FileFeatures # {}))

\* C6 amended: a stage is run as the last, file-writing stage exactly when
\* it is the final -C converter or the implicit trailing AnySceneConverter
\* (i >= n-1) and declares file output; every other stage is run as a
\* non-last stage (begin() or the feature-mismatch exit); and the output of
\* a successful run is written by the trailing AnySceneConverter unless the
\* final -C converter declares file output.
C6_LastIsFinalOrTrailingStage ==
    /\ StageDecided =>
        /\ RunsAsLast <=>
              (i >= args.converterCount - 1
               /\ converter.features \cap FileFeatures # {})
        /\ ~RunsAsLast =>
              /\ ~Called(i, "endFile")
              /\ Called(i, "begin") \/ (pc = "done" /\ exitCode = 6)
    /\ (pc = "done" /\ exitCode = 0 /\ ~args.info) =>
        /\ Called(i, "endFile")
        /\ \/ i = args.converterCount
           \/ /\ i = args.converterCount - 1
              /\ converter.features \cap FileFeatures # {}

C6_Witness ==
    /\ args.converterCount >= 1
    /\ i = args.converterCount
    /\ converter.stage = i
    /\ RunsAsLast
    /\ pc = "done" /\ exitCode = 0

\* C7: a stage that is not run as the last one and declares neither
\* ConvertMesh nor ConvertMultiple ends the run with exit code 6 and no
\* begin(), beginFile(), add() or addSupportedImporterContents() was called
\* on it; exit code 6 is returned in no other case.
C7_FeatureMismatchBeforeBegin ==
    /\ (StageDecided
        /\ ~(i >= args.converterCount - 1
             /\ converter.features \cap FileFeatures # {})
        /\ converter.features \cap {"ConvertMesh", "ConvertMultiple"} = {}) =>
            /\ pc = "done" /\ exitCode = 6
            /\ StageState(i) = "Created"
    /\ exitCode = 6 =>
            /\ pc = "done" /\ converter.stage = i
            /\ converter.features \cap {"ConvertMesh", "ConvertMultiple"} = {}
            /\ StageState(i) = "Created"

\* a non-final -C converter that declares only file output was rejected
C7_Witness ==
    /\ i < args.converterCount - 1
    /\ converter.stage = i
    /\ converter.features = {"ConvertMeshToFile"}
    /\ pc = "done" /\ exitCode = 6

\* the first -C converter declares only ConvertMesh, in a whole-scene run
OnlyConvertMeshFirst ==
    /\ ~singleMesh
    /\ i = 0 /\ converter.stage = 0
    /\ converter.features = {"ConvertMesh"}
    /\ pc # "converterBegin"

\* no data was added to any converter
NothingAdded ==
    \A k \in 1..Len(calls) :
        calls[k].op \notin {"add", "addSupportedImporterContents"}

\* C8 as stated: a first stage declaring only ConvertMesh in a whole-scene
\* run fails with the feature-mismatch error and nothing is added.
C8_ConvertMeshOnlyRejected ==
    OnlyConvertMeshFirst =>
        (pc = "done" /\ exitCode = 6 /\ NothingAdded)

\* C8 amended: a first stage declaring only ConvertMesh in a whole-scene run
\* passes the feature check: the run does not end with exit code 6, begin()
\* is called on the stage and, once begin() and the adds of the loose meshes
\* succeeded, addSupportedImporterContents() is called on it.
C8_ConvertMeshOnlyAccepted ==
    OnlyConvertMeshFirst =>
        /\ exitCode # 6
        /\ Called(0, "begin")
        /\ pc \in {"converterEnd"} => Called(0, "addSupportedImporterContents")
        /\ (pc = "done" /\ ~Called(0, "addSupportedImporterContents")) =>
                /\ exitCode = 1
                /\ calls[Len(calls)].op \in {"begin", "add"}
                /\ ~calls[Len(calls)].ok

C8_Witness ==
    /\ OnlyConvertMeshFirst
    /\ pc = "converterEnd"
    /\ Called(0, "addSupportedImporterContents")

\* how often a converter was instantiated for stage s
Loads(s) ==
    Cardinality({k \in 1..Len(calls) :
        calls[k].target = "converter" /\ calls[k].stage = s
        /\ calls[k].op = "loadAndInstantiate"})

\* the importer a successful end() of stage s returned, -1 if there is none
EndResult(s) ==
    LET ends == {k \in 1..Len(calls) :
                    calls[k].target = "converter" /\ calls[k].stage = s
                    /\ calls[k].op = "end" /\ calls[k].ok}
    IN  IF ends = {} THEN -1 ELSE calls[CHOOSE k \in ends : TRUE].importer

C9_State ==
    LET n == args.converterCount
    IN  /\ \A s \in Stages : Loads(s) <= 1
        /\ \A k \in 1..Len(calls) :
              calls[k].target = "converter" => calls[k].stage <= n
        /\ (pc = "done" /\ exitCode = 0 /\ ~args.info) =>
              /\ calls[Len(calls)].target = "converter"
              /\ calls[Len(calls)].op = "endFile" /\ calls[Len(calls)].ok
              /\ calls[Len(calls)].stage = i
              /\ \/ i = n
                 \/ /\ i = n - 1
                    /\ converter.features \cap FileFeatures # {}
        /\ (n >= 1 /\ Loads(n) = 1) =>
              /\ StageState(n - 1) = "Ended"
              /\ importer.id = EndResult(n - 1)
              /\ \A k \in 1..Len(calls) :
                    (calls[k].target = "converter" /\ calls[k].stage = n
                     /\ calls[k].op \in {"add", "addSupportedImporterContents"})
                        => calls[k].importer = EndResult(n - 1)
        /\ (n >= 1 /\ StageState(n - 1) = "Ended") =>
              /\ i = n
              /\ pc = "converterLoop" \/ Loads(n) = 1

C9_Step ==
    LET n == args.converterCount
    IN  (n >= 1 /\ converter.stage = n - 1
         /\ converter.features \cap FileFeatures # {}) =>
            /\ converter'.stage = n - 1
            /\ i' = n - 1
            /\ Loads(n)' = 0

\* C9: with n -C converters, a converter is instantiated at most once per
\* stage and never beyond stage n (the implicit AnySceneConverter); a
\* successful run ends with the endFile() of stage n, or of stage n-1 if the
\* final -C converter declares file output (so with n = 0 the only converter
\* is AnySceneConverter and it writes the file); when the trailing
\* AnySceneConverter is instantiated after a -C converter, that converter
\* was ended with end() and the trailing stage reads exactly the importer
\* end() returned, and it is run as soon as that end() succeeded; once the
\* final -C converter is instantiated with file output declared, it stays
\* the current converter and AnySceneConverter is never instantiated.
C9_TrailingAnySceneConverter == [](C9_State) /\ [][C9_Step]_vars

C9_Witness ==
    /\ args.converterCount = 1
    /\ Loads(1) = 1 /\ i = 1
    /\ EndResult(0) = importer.id
    /\ Called(1, "addSupportedImporterContents")
    /\ pc = "done" /\ exitCode = 0

\* the add() calls made on the converter of stage s
AddCalls(s) ==
    SelectSeq(calls, LAMBDA c : c.target = "converter" /\ c.stage = s
                                /\ c.op = "add")

\* the loose meshes 0..count-1 were added to stage s one by one, in order
AddedInOrder(s, count) ==
    /\ Len(AddCalls(s)) = count
    /\ \A k \in 1..count : AddCalls(s)[k].mesh = k - 1 /\ AddCalls(s)[k].ok

C10_State ==
    /\ pc = "addImporterContents" => meshes = <<>>
    /\ \A k \in 1..Len(calls) :
          calls[k].op = "addSupportedImporterContents" =>
              /\ calls[k].contents \in
                    {AllSceneContents, AllSceneContents \ {"Meshes"}}
              /\ \A l \in 1..Len(calls) :
                    (calls[l].op = "add" /\ calls[l].stage = calls[k].stage)
                        => l < k /\ "Meshes" \notin calls[k].contents
              /\ \A l \in 1..Len(calls) :
                    (calls[l].op = "addSupportedImporterContents"
                     /\ calls[l].stage = calls[k].stage) => l = k

\* the steps around the adding of a stage that do not depend on whether the
\* converter takes meshes
C10_CommonSteps ==
    /\ (pc = "converterBegin" /\ pc' = "looseMeshes") => meshes # <<>>
    /\ (pc = "converterBegin" /\ pc' = "addImporterContents") =>
          meshes = <<>> /\ contents' = AllSceneContents
    /\ (pc = "addImporterContents" /\ pc' # pc) =>
          /\ Len(calls') = Len(calls) + 1
          /\ calls'[Len(calls')].op = "addSupportedImporterContents"
          /\ calls'[Len(calls')].stage = i
          /\ calls'[Len(calls')].contents = contents
          /\ calls'[Len(calls')].importer = importer.id

\* leaving the loose mesh loop towards addSupportedImporterContents()
LooseMeshesDone == pc = "looseMeshes" /\ pc' = "addImporterContents"

\* C10 as stated: if a loose mesh array is held, every loose mesh is added
\* in array order, then the array is cleared, and then
\* addSupportedImporterContents() is called once with Meshes removed from
\* the mask; without a loose array it is called with the full mask.
C10_AllLooseMeshesAddedFirst ==
    /\ [](C10_State)
    /\ [][C10_CommonSteps]_vars
    /\ [][LooseMeshesDone =>
            /\ AddedInOrder(i, Len(meshes))
            /\ meshes' = <<>>
            /\ contents' = AllSceneContents \ {"Meshes"}]_vars

\* C10 amended: as stated, but the loose meshes are added only if the
\* converter accepts meshes; if it does not, none of them is added, and the
\* array is cleared and Meshes removed from the mask all the same.
C10_LooseMeshesAddedIfAccepted ==
    /\ [](C10_State)
    /\ [][C10_CommonSteps]_vars
    /\ [][LooseMeshesDone =>
            /\ meshes # <<>>
            /\ IF "Meshes" \in sceneContentsFor(converter.features)
               THEN AddedInOrder(i, Len(meshes))
               ELSE AddedInOrder(i, 0)
            /\ meshes' = <<>>
            /\ contents' = AllSceneContents \ {"Meshes"}]_vars

C10_Witness ==
    /\ Len(AddCalls(0)) = 2
    /\ Called(0, "addSupportedImporterContents")
    /\ calls[Len(calls)].contents = AllSceneContents \ {"Meshes"}
    /\ meshes = <<>>

\* the addSupportedImporterContents() calls made on the converter of stage s
ImporterContentsCalls(s) ==
    SelectSeq(calls, LAMBDA c : c.target = "converter" /\ c.stage = s
                                /\ c.op = "addSupportedImporterContents")

\* C11: no stage is given a content category twice: every stage receives at
\* most one addSupportedImporterContents() call, so every category other
\* than meshes is pushed to it at most once; a stage that received add()
\* calls of loose meshes receives no Meshes through
\* addSupportedImporterContents(); and no loose mesh is added twice.
C11_NoCategoryPushedTwice ==
    /\ \A s \in Stages :
          LET pushed == ImporterContentsCalls(s)
              added == AddCalls(s)
          IN  /\ Len(pushed) <= 1
              /\ (added # <<>> /\ pushed # <<>>) =>
                    "Meshes" \notin pushed[1].contents
              /\ \A k \in 1..Len(added) : added[k].mesh = k - 1
    /\ (pc = "addImporterContents" /\ AddCalls(i) # <<>>) =>
          "Meshes" \notin contents

\* stage 0 got the meshes through add(), stage 1 through the importer
C11_Witness ==
    /\ AddCalls(0) # <<>>
    /\ ImporterContentsCalls(0) # <<>>
    /\ ImporterContentsCalls(1) # <<>>
    /\ "Meshes" \in ImporterContentsCalls(1)[1].contents

\* C12: the loose mesh array is consumed by stage 0 only: it is empty once
\* stage 0 is past its adding step and in every later stage; add() of a
\* loose mesh is called on stage 0 only; and a later stage is handed the
\* meshes through addSupportedImporterContents() with Meshes in the mask,
\* reading the importer that end() of the previous stage returned.
C12_LooseMeshesConsumedByFirstStage ==
    /\ i >= 1 => meshes = <<>>
    /\ pc \in {"addImporterContents", "converterEnd"} => meshes = <<>>
    /\ ImporterContentsCalls(0) # <<>> => meshes = <<>>
    /\ \A k \in 1..Len(calls) : calls[k].op = "add" => calls[k].stage = 0
    /\ \A k \in 1..Len(calls) :
          (calls[k].op = "addSupportedImporterContents"
           /\ calls[k].stage >= 1) =>
              /\ "Meshes" \in calls[k].contents
              /\ calls[k].importer = EndResult(calls[k].stage - 1)

C12_Witness ==
    /\ i >= 1 /\ pc = "converterEnd"
    /\ Len(AddCalls(0)) = 2
    /\ meshes = <<>>

\* the first stage of the chain was begun: the mask exists
MaskCreated ==
    \E k \in 1..Len(calls) :
        /\ calls[k].target = "converter"
        /\ calls[k].op \in {"begin", "beginFile"}
        /\ calls[k].ok

\* C13 as stated: once the chain runs, no step of the run, the step from
\* one stage to the next included, sets a category of the mask.
C13_MaskOnlyClearedOverRun ==
    [][MaskCreated => contents' \subseteq contents]_vars

\* C13 amended: within a stage the mask changes only by clearing
\* categories; every stage that was begun starts with the full mask,
\* whatever the stage before cleared.
C13_MaskOnlyClearedWithinStage ==
    /\ [][contents' \subseteq contents \/ pc = "converterBegin"]_vars
    /\ [][(pc = "converterBegin"
           /\ pc' \in {"looseMeshes", "addImporterContents"}) =>
              contents' = AllSceneContents]_vars

\* stage 0 cleared Meshes and stage 1 has them in its mask again
C13_Witness ==
    /\ i = 1 /\ pc = "addImporterContents"
    /\ contents = AllSceneContents
    /\ ImporterContentsCalls(0) # <<>>
    /\ ImporterContentsCalls(0)[1].contents = AllSceneContents \ {"Meshes"}

\* C14: a converter is instantiated for stage s >= 1 only after every call
\* on stage s-1 succeeded and its end() returned an importer; what stage s
\* reads is that importer: not the input file's importer or the single-mesh
\* adapter, and not what an earlier stage returned.
C14_StageReadsPreviousStageOutput ==
    \A s \in Stages \ {0} : Called(s, "loadAndInstantiate") =>
        LET before == ConverterCalls(s - 1)
            source == EndResult(s - 1)
        IN  /\ ProtocolState("None", before) = "Ended"
            /\ \A k \in 1..Len(before) : before[k].ok
            /\ source # -1
            /\ \A k \in 1..Len(calls) :
                  /\ (calls[k].target = "converter" /\ calls[k].stage = s
                      /\ calls[k].op \in
                            {"add", "addSupportedImporterContents"})
                        => calls[k].importer = source
                  /\ calls[k].target = "importer" =>
                        calls[k].importer # source
            /\ \A t \in 0..(s - 2) : EndResult(t) # source
            /\ (s = i /\ pc \in {"converterBegin", "looseMeshes",
                                  "addImporterContents", "converterEnd"}) =>
                  /\ importer.id = source
                  /\ importer.kind = "converted"

\* the third stage read what the second returned
C14_Witness ==
    /\ ImporterContentsCalls(2) # <<>>
    /\ ImporterContentsCalls(2)[1].importer = EndResult(1)
    /\ EndResult(0) # -1 /\ EndResult(0) # EndResult(1)

\* a pipeline is running: the importer was instantiated and main() has not
\* returned
Running ==
    pc \notin {"parseArguments", "checkOptions", "loadImporter", "done",
               "aborted"}

\* the importer instances that exist
LiveImporters ==
    {imp.id : imp \in {importer, previousImporter} \ {NoImporter}}

\* no scene converter exists while the next one is about to be instantiated
\* or before the chain; the one that exists is the one of the current stage
OneConverterLive ==
    /\ pc = "converterLoop" => converter = NoConverter
    /\ converter # NoConverter => converter.stage = i
    /\ \A k \in 1..Len(calls) :
          (calls[k].target = "meshConverter" /\ calls[k].op = "convert") =>
              /\ k >= 3
              /\ calls[k - 2].target = "meshConverter"
              /\ calls[k - 2].op = "loadAndInstantiate"
              /\ calls[k - 2].stage = calls[k].stage
              /\ \A l \in 1..k : calls[l].target # "converter"

\* C15 as stated: while a pipeline runs exactly one importer instance and
\* at most one converter instance exist.
C15_ExactlyOneSourceLive ==
    Running =>
        /\ Cardinality(LiveImporters) = 1
        /\ OneConverterLive

\* C15 amended: while a pipeline runs at most one converter instance
\* exists, and exactly one importer instance, the newest one, except while
\* the single-mesh adapter is put in place: then the original importer
\* exists next to the adapter, and it is destroyed in the next step.
C15_OneSourceLiveButForAdapterConstruction ==
    Running =>
        /\ importer # NoImporter
        /\ importer.id = nextImporterId - 1
        /\ previousImporter # NoImporter <=> pc = "singleMeshImporterCreated"
        /\ previousImporter # NoImporter =>
              /\ importer.kind = "single" /\ previousImporter.kind = "file"
              /\ LiveImporters = {importer.id, importer.id - 1}
        /\ OneConverterLive

\* the importer was replaced by the adapter and then by the output of end()
C15_Witness ==
    /\ args.mesh
    /\ pc = "converterLoop" /\ i >= 1
    /\ importer.kind = "converted"
    /\ previousImporter = NoImporter /\ converter = NoConverter

\* the order of the preprocessing steps as the claim states it; 0 for the
\* steps that make the single mesh (concatenation, transformation)
StepRankAsStated(op) ==
    CASE op \in {"removeDuplicates", "removeDuplicatesFuzzy"} -> 1
      [] op = "filterAttributes" -> 2
      [] op = "convert" -> 3
      [] OTHER -> 0

\* the order of the preprocessing steps in main()
StepRank(op) ==
    CASE op = "filterAttributes" -> 1
      [] op \in {"removeDuplicates", "removeDuplicatesFuzzy"} -> 2
      [] op = "convert" -> 3
      [] OTHER -> 0

\* the preprocessing steps of mesh m were applied in the order of Rank
InRankOrder(m, Rank(_)) ==
    \A a, b \in 1..Len(m.steps) :
        (a < b /\ Rank(m.steps[a].op) > 0 /\ Rank(m.steps[b].op) > 0) =>
            Rank(m.steps[a].op) <= Rank(m.steps[b].op)

\* the steps `ops` applied to mesh m
StepsOf(m, ops) == SelectSeq(m.steps, LAMBDA st : st.op \in ops)

\* C16 as stated: the steps applied to a mesh come in the order duplicate
\* removal, attribute filter, mesh converters.
C16_DuplicateRemovalBeforeFilter ==
    \A m \in HeldMeshes : InRankOrder(m, StepRankAsStated)

\* C16 amended: the steps applied to a mesh come in the order attribute
\* filter, duplicate removal, mesh converters; and every mesh handed to the
\* converter chain went through each step that was requested.
C16_FilterBeforeDuplicateRemoval ==
    /\ \A m \in HeldMeshes : InRankOrder(m, StepRank)
    /\ \A k \in 1..Len(meshes) :
          /\ args.onlyMeshAttributes => FilterCount(meshes[k]) = 1
          /\ (args.removeDuplicateVertices
              \/ args.removeDuplicateVerticesFuzzy) =>
                StepsOf(meshes[k],
                        {"removeDuplicates", "removeDuplicatesFuzzy"}) # <<>>
          /\ Len(StepsOf(meshes[k], {"convert"})) = args.meshConverterCount

\* a mesh that was filtered, freed of duplicates and converted
C16_Witness ==
    /\ Len(meshes) = 1
    /\ Len(meshes[1].steps) = 3
    /\ meshes[1].steps[1].op = "filterAttributes"
    /\ meshes[1].steps[2].op = "removeDuplicates"
    /\ meshes[1].steps[3].op = "convert"

\* the calls made on mesh converters
MeshConverterCalls ==
    SelectSeq(calls, LAMBDA c : c.target = "meshConverter")

\* C17: the -M converters are applied to each mesh in the order given, each
\* to the output of the one before; every convert() follows the successful
\* instantiation of its converter and a features() answer with ConvertMesh;
\* once a mesh converter lacks ConvertMesh or a convert() fails, the run is
\* over with a non-zero exit code and no scene converter was instantiated;
\* the scene converters are run only after every mesh converter succeeded.
C17_MeshConvertersInOrderOrAbort ==
    /\ \A m \in HeldMeshes :
          LET converts == StepsOf(m, {"convert"})
          IN  \A k \in 1..Len(converts) : converts[k].index = k - 1
    /\ \A k \in 1..Len(meshes) :
          Len(StepsOf(meshes[k], {"convert"})) = args.meshConverterCount
    /\ \A k \in 1..Len(MeshConverterCalls) :
          LET c == MeshConverterCalls[k]
          IN  /\ c.op = "convert" =>
                    /\ k >= 3
                    /\ MeshConverterCalls[k - 1].op = "features"
                    /\ MeshConverterCalls[k - 1].ok
                    /\ MeshConverterCalls[k - 1].stage = c.stage
                    /\ MeshConverterCalls[k - 2].op = "loadAndInstantiate"
                    /\ MeshConverterCalls[k - 2].ok
                    /\ MeshConverterCalls[k - 2].stage = c.stage
              /\ ~c.ok =>
                    /\ k = Len(MeshConverterCalls)
                    /\ pc = "done" /\ exitCode \notin {-1, 0}
                    /\ \A l \in 1..Len(calls) : calls[l].target # "converter"
                    /\ converter = NoConverter
    /\ \A k \in 1..(Len(MeshConverterCalls) - 1) :
          \/ MeshConverterCalls[k].op # "convert"
          \/ MeshConverterCalls[k + 1].mesh = -1
    /\ \A k \in 1..(Len(MeshConverterCalls) - 3) :
          LET c == MeshConverterCalls[k]
              d == MeshConverterCalls[k + 3]
          IN  (c.op = "convert" /\ d.op = "convert") =>
                \/ d.mesh = c.mesh /\ d.stage = c.stage + 1
                \/ /\ d.mesh = c.mesh + 1 /\ d.stage = 0
                   /\ c.stage = args.meshConverterCount - 1

\* two meshes went through two mesh converters each
C17_Witness ==
    /\ args.meshConverterCount = 2
    /\ Len(meshes) = 2
    /\ Len(StepsOf(meshes[2], {"convert"})) = 2
    /\ pc = "converterLoop"

\* C18: at most one duplicate removal is applied to a mesh, the exact or
\* the fuzzy one, and at most once, whatever options are given.
C18_OneDuplicateRemovalPerMesh ==
    \A m \in HeldMeshes :
        Len(StepsOf(m, {"removeDuplicates", "removeDuplicatesFuzzy"})) <= 1

\* both options given: the mesh went through one removal
C18_Witness ==
    /\ args.removeDuplicateVertices /\ args.removeDuplicateVerticesFuzzy
    /\ Len(meshes) >= 1
    /\ Len(StepsOf(meshes[1],
                   {"removeDuplicates", "removeDuplicatesFuzzy"})) = 1

\* C19: a successful endFile() is the last call of the run, which then
\* ends with exit code 0; so no run that ends with a non-zero exit code has
\* a successful endFile() in it.
C19_NoPartialOutputFinalized ==
    /\ \A k \in 1..Len(calls) :
          (calls[k].op = "endFile" /\ calls[k].ok) =>
              /\ k = Len(calls)
              /\ pc = "done" /\ exitCode = 0
    /\ (pc = "done" /\ exitCode # 0) =>
          \A k \in 1..Len(calls) : ~(calls[k].op = "endFile" /\ calls[k].ok)

\* a run through two stages that ended with a successful endFile()
C19_Witness ==
    /\ pc = "done" /\ exitCode = 0
    /\ i = 1
    /\ calls[Len(calls)].op = "endFile" /\ calls[Len(calls)].ok

\* C20: a call that reported failure is the last call of the run, which
\* is over with a non-zero exit code: nothing is called after a failure and
\* no call is retried.
C20_AbortOnFirstFailure ==
    \A k \in 1..Len(calls) :
        ~calls[k].ok =>
            /\ k = Len(calls)
            /\ pc = "done"
            /\ exitCode \notin {-1, 0}

\* the add() of the second loose mesh failed
C20_Witness ==
    /\ pc = "done" /\ exitCode = 1
    /\ Len(AddCalls(0)) = 2
    /\ ~calls[Len(calls)].ok /\ calls[Len(calls)].op = "add"

(* ======================================================================= *)
(* The single-mesh adapter and the custom attribute names                  *)
(* ======================================================================= *)
\* The positions of main() after the single-mesh block, from line 596 on
AfterSingleMeshBlock ==
    pc \in {"preprocess", "preprocessImport", "removeDuplicates",
            "meshConverters", "converterLoop", "converterBegin",
            "looseMeshes", "addImporterContents", "converterEnd"}

EntriesFor(id) ==
    Len(SelectSeq(importer.attributeNames, LAMBDA e : e.id = id))

\* The number of attributes of the carried mesh that are custom attribute id
Occurrences(id) ==
    Len(SelectSeq(importer.mesh[1].attributes,
                  LAMBDA a : a.custom /\ a.id = id))

\* The name the input file has for a custom attribute
NameInFile(id) ==
    IF id \in DOMAIN input.names THEN input.names[id] ELSE NoName

\* C22 as stated: the table of the adapter has exactly one entry for every
\* custom attribute id present in the carried mesh and none for the ids that
\* are absent, also for a mesh that carries the same id more than once.
C22_ExactlyOneEntryPerPresentId ==
    importer.kind = "single" =>
        \A id \in CustomIds :
            EntriesFor(id) = (IF Occurrences(id) > 0 THEN 1 ELSE 0)

\* C22 amended: the table has one entry for every attribute of the carried
\* mesh that is custom, so as many entries for an id as the mesh has
\* attributes with it and none for an absent id; every entry holds the name
\* the input file has for the id, empty or not, and that is the name a
\* lookup of a present id gives.
C22_OneEntryPerCustomAttribute ==
    importer.kind = "single" =>
        \A id \in CustomIds :
            /\ EntriesFor(id) = Occurrences(id)
            /\ \A k \in 1..Len(importer.attributeNames) :
                  importer.attributeNames[k].id = id =>
                      importer.attributeNames[k].name = NameInFile(id)
            /\ Occurrences(id) > 0 =>
                  doMeshAttributeName(importer, id) = <<NameInFile(id)>>

\* the adapter carries a mesh with custom attribute 1 twice: two entries
C22_Witness ==
    /\ importer.kind = "single"
    /\ Occurrences(1) = 2
    /\ EntriesFor(1) = 2
    /\ Occurrences(0) = 0 /\ EntriesFor(0) = 0

\* C23: every attribute name lookup on the adapter is for an id recorded at
\* its construction, so the unreachable assertion of the lookup is never
\* hit, also when duplicate removal or -M mesh converters have produced the
\* loose meshes.
C23_NoLookupOfUnrecordedId ==
    /\ failure # "unreachable"
    /\ \A k \in 1..Len(calls) :
          calls[k].op = "meshAttributeName" => calls[k].ok

\* The calls of the name propagation made for the loose mesh whose add() is
\* calls[k]: the name calls right before it
PropagationOf(k) ==
    {j \in 1..(k - 1) :
        \A l \in j..(k - 1) :
            calls[l].op \in {"meshAttributeName", "setMeshAttributeName"}}

\* The custom attributes of the loose mesh whose add() is calls[k]
CustomAttributesAdded(k) ==
    {meshes[calls[k].mesh + 1].attributes[a] :
        a \in {b \in 1..Len(meshes[calls[k].mesh + 1].attributes) :
                 meshes[calls[k].mesh + 1].attributes[b].custom}}

\* The add() calls of loose meshes that are still held
LooseMeshAdds ==
    {k \in 1..Len(calls) : calls[k].op = "add" /\ calls[k].mesh < Len(meshes)}

\* C27 as stated: for every loose mesh added and every custom attribute it
\* carries, the name is resolved from the current importer and forwarded to
\* the converter with setMeshAttributeName() before the add() of the mesh.
C27_EveryCustomNameForwarded ==
    \A k \in LooseMeshAdds :
        \A attribute \in CustomAttributesAdded(k) :
            \E j \in PropagationOf(k) :
                /\ calls[j].op = "setMeshAttributeName"
                /\ calls[j].mesh = attribute.id

\* C27 amended: for every loose mesh added and every custom attribute it
\* carries, the name is looked up in the current importer before the add()
\* of the mesh; a name that is not empty is then forwarded to the current
\* converter with setMeshAttributeName(), an empty one is not forwarded.
C27_NonEmptyCustomNamesForwarded ==
    \A k \in LooseMeshAdds :
        /\ \A attribute \in CustomAttributesAdded(k) :
              \E j \in PropagationOf(k) :
                  /\ calls[j].op = "meshAttributeName"
                  /\ calls[j].target = "importer"
                  /\ calls[j].importer = importer.id
                  /\ calls[j].mesh = attribute.id
        /\ \A j \in PropagationOf(k) :
              /\ (calls[j].op = "meshAttributeName" /\ calls[j].ok) =>
                    /\ calls[j].name = NameInFile(calls[j].mesh)
                    /\ IF calls[j].name # NoName
                       THEN /\ calls[j + 1].op = "setMeshAttributeName"
                            /\ calls[j + 1].target = "converter"
                            /\ calls[j + 1].stage = calls[k].stage
                            /\ calls[j + 1].mesh = calls[j].mesh
                            /\ calls[j + 1].name = calls[j].name
                       ELSE calls[j + 1].op # "setMeshAttributeName"
              /\ calls[j].op = "setMeshAttributeName" =>
                    /\ calls[j].name # NoName
                    /\ calls[j - 1].op = "meshAttributeName"
                    /\ calls[j - 1].mesh = calls[j].mesh
                    /\ calls[j - 1].name = calls[j].name

\* a loose mesh with the unnamed custom attribute 0 and the named custom
\* attribute 1 was added: one name was forwarded
C27_Witness ==
    /\ pc = "looseMeshes"
    /\ meshIndex = 1
    /\ meshes[1].attributes =
           <<meshAttributeCustom(0), meshAttributeCustom(1)>>
    /\ LET k == Len(calls)
       IN  /\ calls[k].op = "add" /\ calls[k].ok
           /\ calls[k - 1].op = "setMeshAttributeName"
           /\ calls[k - 1].mesh = 1
           /\ calls[k - 2].op = "meshAttributeName"
           /\ calls[k - 3].op = "meshAttributeName"
           /\ calls[k - 3].mesh = 0

(* ======================================================================= *)
(* Concatenation, --info and the mapped input                              *)
(* ======================================================================= *)
\* The default scene of the file was not imported: the file has none
NoSceneImported == \A k \in 1..Len(calls) : calls[k].op # "scene"

\* The vertices of the first n meshes of a list
RECURSIVE VerticesOfFirst(_, _)
VerticesOfFirst(list, n) ==
    IF n = 0 THEN 0 ELSE VerticesOfFirst(list, n - 1) + list[n].vertexCount

\* What C24 says of the step that concatenates the meshes
C24_Step ==
    (pc = "concatenateMeshes" /\ pc' = "filterAttributes" /\ NoSceneImported)
    => /\ Len(meshesToConcatenate) = importer.meshCount
       /\ \A k \in 1..Len(meshesToConcatenate) :
             /\ meshesToConcatenate[k].origin = <<k - 1>>
             /\ meshesToConcatenate[k].steps = <<>>
       /\ mesh'[1].origin = [k \in 1..importer.meshCount |-> k - 1]
       /\ mesh'[1].vertexCount =
              VerticesOfFirst(meshesToConcatenate, importer.meshCount)
       /\ mesh'[1].attributes = meshesToConcatenate[1].attributes
       /\ mesh'[1].primitive = meshesToConcatenate[1].primitive

\* C24: with --concatenate-meshes and a file without a default scene, the
\* single mesh is the concatenation of all meshes of the file in import
\* order, none of them transformed: its vertex count is the sum of their
\* vertex counts and its attributes are those of the first mesh.
C24_ConcatenationWithoutScene == [][C24_Step]_vars

\* a mesh of 4 vertices and one of 3 were concatenated to one of 7 with the
\* attributes of the first
C24_Witness ==
    /\ args.concatenateMeshes
    /\ pc = "filterAttributes"
    /\ NoSceneImported
    /\ mesh[1].origin = <<0, 1>>
    /\ mesh[1].vertexCount = 7
    /\ mesh[1].attributes = <<Position, Normal>>

\* C25: if the meshes to concatenate have different primitives or are
\* strips or fans, the run fails there: no merged mesh is produced, and so
\* no converter is begun and no output is written.
C25_IncompatibleTopologyFails ==
    [][(/\ pc = "concatenateMeshes"
        /\ meshesToConcatenate # <<>>
        /\ ~CanConcatenate(meshesToConcatenate))
       => (pc' \in {"done", "aborted"} /\ mesh' = <<>>)]_vars

\* C26: if an --info option is given, the missing output argument is not an
\* error and no conversion is done: the only calls are loading the importer,
\* opening the input and printing the info, no mesh is imported or
\* preprocessed, no converter is instantiated, after a successful open
\* nothing but the info printing runs, and the exit code is 0 if the
\* printing reported no error and 1 if it did.
C26_InfoOnlyPrints ==
    isInfoRequested =>
        /\ failure # "arguments"
        /\ \A k \in 1..Len(calls) :
              /\ calls[k].target \in {"importerManager", "path", "importer"}
              /\ calls[k].op \in
                     {"loadAndInstantiate", "mapRead", "open", "printInfo"}
        /\ mesh = <<>> /\ meshes = <<>> /\ meshesToConcatenate = <<>>
        /\ converter = NoConverter
        /\ (\E k \in 1..Len(calls) : calls[k].op = "open" /\ calls[k].ok)
              => /\ pc \in {"printInfo", "done"}
                 /\ pc = "done" =>
                       /\ calls[Len(calls)].op = "printInfo"
                       /\ exitCode = IF calls[Len(calls)].ok THEN 0 ELSE 1

\* --info without an output argument: the info was printed, exit code 0
C26_Witness ==
    /\ isInfoRequested /\ ~args.output
    /\ pc = "done" /\ exitCode = 0
    /\ calls[Len(calls)].op = "printInfo"

\* The position of an object in the destructions of the return, 0 if it is
\* not destroyed there
DestroyedAt(object) ==
    IF \E k \in 1..Len(teardown) : teardown[k] = object
    THEN CHOOSE k \in 1..Len(teardown) : teardown[k] = object
    ELSE 0

\* C28: with --map, on every return of main() the mapping is released only
\* after the importer in place (the first importer or the adapter) and the
\* loose mesh array have been destroyed.
C28_MappingReleasedLast ==
    (pc = "done" /\ DestroyedAt("mapped") > 0) =>
        /\ DestroyedAt("importer") < DestroyedAt("mapped")
        /\ DestroyedAt("meshes") < DestroyedAt("mapped")

(* ======================================================================= *)
(* Flat normals and moved shaders                                          *)
(* ======================================================================= *)
\* C29: generateFlatNormals() returns one normal per position, for a
\* position count that is divisible by 3, and the three normals of every
\* triangle are equal; generateFlatNormalsInto() fills the array it is given
\* the same way, only if that array has the size of the positions.
C29_FlatNormalsPerTriangle ==
    /\ generated \in {"returned", "filled"} =>
          /\ Len(positions) % 3 = 0
          /\ Len(normals) = Len(positions)
          /\ \A k \in 0..((Len(positions) \div 3) - 1) :
                /\ normals[3 * k + 1] = normals[3 * k + 2]
                /\ normals[3 * k + 2] = normals[3 * k + 3]
    /\ (generated \in Unexpected /\ Len(positions) % 3 = 0) =>
          Len(normals) # Len(positions)

\* the normals of one triangle that is not degenerate were returned
C29_Witness ==
    /\ generated = "returned"
    /\ Len(positions) = 3
    /\ Len(normals) = 3
    /\ normals[1] # Zero
    /\ normals[1] = normals[2] /\ normals[2] = normals[3]

\* The instances that hold GL object gl
Holders(gl) == {x \in DOMAIN shaders.id : shaders.id[x] = gl}

\* C30: after a move construction, and after a move assignment into a
\* NoCreate instance, the destination has the id the source had and the
\* source has id 0; whatever moves were made, every GL object created is
\* held by exactly one instance, and its id is not zero.
C30_MoveTransfersOwnership ==
    /\ 0 \notin shaders.created
    /\ \A gl \in shaders.created : Cardinality(Holders(gl)) = 1
    /\ \A x \in DOMAIN shaders.id :
          shaders.id[x] # 0 => shaders.id[x] \in shaders.created
    /\ shaders.moved # <<>> =>
          /\ shaders.id[shaders.moved[1].to] = shaders.moved[1].id
          /\ shaders.moved[1].replaced = 0 =>
                shaders.id[shaders.moved[1].from] = 0

\* the test: a was constructed, moved to a new b, and b was assigned to a
\* NoCreate c, which holds the id now
C30_Witness ==
    /\ DOMAIN shaders.id = {"a", "b", "c"}
    /\ Cardinality(shaders.created) = 1
    /\ shaders.id["a"] = 0 /\ shaders.id["b"] = 0
    /\ shaders.id["c"] \in shaders.created
    /\ shaders.moved = <<[to |-> "c", from |-> "b", id |-> shaders.id["c"],
                          replaced |-> 0]>>

(* ======================================================================= *)
(* The converter chain as a whole                                          *)
(* ======================================================================= *)
\* The instantiations of the converters of the chain, in the order made
ChainLoads ==
    SelectSeq(calls, LAMBDA c :
        c.target = "converter" /\ c.op = "loadAndInstantiate")

\* The successful endFile() calls
FilesWritten == {k \in 1..Len(calls) : calls[k].op = "endFile" /\ calls[k].ok}

C31_State ==
    /\ Len(ChainLoads) <= args.converterCount + 1
    /\ \A k \in 1..Len(ChainLoads) : ChainLoads[k].stage = k - 1
    /\ (pc = "done" /\ exitCode = 0 /\ ~isInfoRequested) =>
          Cardinality(FilesWritten) = 1

\* C31: every run ends; the chain instantiates at most n+1 stages for n -C
\* options, stage k as the k-th and no stage twice; and a run that returns 0
\* without --info has made exactly one successful endFile() call.
C31_ChainTerminatesHavingWritten ==
    [](C31_State) /\ <>(pc \in {"done", "aborted"})

\* two -C converters passed the meshes on and the implicit trailing
\* converter, the third stage, wrote the file
C31_Witness ==
    /\ pc = "done"
    /\ exitCode = 0
    /\ ~isInfoRequested
    /\ args.converterCount = 2
    /\ Len(ChainLoads) = 3
    /\ Cardinality(FilesWritten) = 1

\* The loose meshes are held and the converter of this stage takes no meshes
LooseMeshesRefused ==
    /\ pc = "looseMeshes"
    /\ "Meshes" \notin sceneContentsFor(converter.features)

C32_State ==
    /\ pc = "looseMeshes" => meshes # <<>>
    /\ (pc \in {"addImporterContents", "converterEnd"} \/ i >= 1) =>
          meshes = <<>>

C32_Step ==
    /\ LooseMeshesRefused =>
          /\ pc' = "addImporterContents"
          /\ exitCode' = -1
          /\ calls' = calls
          /\ contents' = contents \ {"Meshes"}
          /\ meshes' = <<>>
    /\ (pc = "addImporterContents" /\ pc' # pc) =>
          /\ calls'[Len(calls')].op = "addSupportedImporterContents"
          /\ calls'[Len(calls')].contents = contents
    /\ \A k \in (Len(calls) + 1)..Len(calls') :
          calls'[k].op = "add" =>
              /\ "Meshes" \in sceneContentsFor(converter.features)
              /\ meshes # <<>>

\* C32: where loose meshes are held and the converter of the stage accepts no
\* meshes, the stage goes on without an add() call and without failing, with
\* Meshes taken out of the mask that addSupportedImporterContents() gets and
\* with the loose array cleared; add() is called only while the array is held
\* by a converter that accepts meshes, and the array is empty from then on,
\* so no stage gets the preprocessed meshes.
C32_RefusedLooseMeshesDropped == [](C32_State) /\ [][C32_Step]_vars

\* a mesh went through a mesh converter, the first stage took no meshes, and
\* the run ended with 0 without a single add() call
C32_Witness ==
    /\ pc = "done"
    /\ exitCode = 0
    /\ \E k \in 1..Len(calls) : calls[k].op = "convert" /\ calls[k].ok
    /\ \A k \in 1..Len(calls) : calls[k].op # "add"
    /\ \E k \in 1..Len(calls) :
          /\ calls[k].op = "addSupportedImporterContents"
          /\ calls[k].stage = 0
          /\ "Meshes" \notin calls[k].contents

\* The transformation baked into a mesh
Transformed == <<[op |-> "transform3D", index |-> 0]>>

C33_State ==
    (pc = "filterAttributes" /\ args.concatenateMeshes /\ ~NoSceneImported) =>
        /\ mesh[1].origin = importer.hierarchy
        /\ mesh[1].steps[1] = [op |-> "concatenate",
                               index |-> Len(importer.hierarchy)]

C33_Step ==
    /\ (pc = "concatenateFlatten" /\ pc' = "concatenateMeshes"
        /\ calls' # calls) =>
          LET flattened == importer'.hierarchy
          IN  /\ calls'[Len(calls')].op = "scene"
              /\ Len(meshesToConcatenate') = Len(flattened)
              /\ \A k \in 1..Len(flattened) :
                    LET source == meshesToConcatenate[flattened[k] + 1]
                    IN  /\ source.origin = <<flattened[k]>>
                        /\ source.steps = <<>>
                        /\ meshesToConcatenate'[k] =
                              [source EXCEPT !.steps = Transformed]
              /\ \A m \in 0..(importer.meshCount - 1) :
                    Cardinality({k \in 1..Len(meshesToConcatenate') :
                                    meshesToConcatenate'[k].origin = <<m>>})
                    = Cardinality({k \in 1..Len(flattened) :
                                    flattened[k] = m})
    /\ (pc = "concatenateMeshes" /\ pc' = "filterAttributes") =>
          /\ mesh'[1].origin = Origins(meshesToConcatenate)
          /\ mesh'[1].vertexCount = VertexCounts(meshesToConcatenate)

\* C33: with --concatenate-meshes and a scene, the list given to
\* concatenate() has one entry per entry of the flattened hierarchy, in its
\* order, each the imported mesh of that index with the transformation
\* applied: a mesh referenced k times is there k times, one that is not
\* referenced is not there, and no untransformed mesh is in the list.
C33_ConcatenationFollowsHierarchy == [](C33_State) /\ [][C33_Step]_vars

\* mesh 1, of three vertices, is referenced twice and mesh 0 not at all: the
\* concatenated mesh is two copies of mesh 1
C33_Witness ==
    /\ pc = "filterAttributes"
    /\ args.concatenateMeshes
    /\ importer.meshCount = 2
    /\ importer.hierarchy = <<1, 1>>
    /\ mesh[1].origin = <<1, 1>>
    /\ mesh[1].vertexCount = 6

(* ======================================================================= *)
(* The adapter and the names of the meshes                                 *)
(* ======================================================================= *)
\* The identity of the importer that opened the input file
OpenedImporter ==
    SelectSeq(calls, LAMBDA c : c.op = "open")[1].importer

\* The calls a step adds to the log
NewCalls == {calls'[k] : k \in (Len(calls) + 1)..Len(calls')}

C34_State ==
    /\ importer.kind = "single" =>
          /\ importer.name =
                (IF args.mesh
                 THEN meshNameInFile(importer.mesh[1].origin[1])
                 ELSE NoName)
          /\ \A k \in 1..Len(importer.attributeNames) :
                importer.attributeNames[k].name =
                    NameInFile(importer.attributeNames[k].id)
          /\ importer.id # OpenedImporter
    /\ AfterSingleMeshBlock => previousImporter = NoImporter

C34_Step ==
    /\ pc = "createSingleMeshImporter" =>
          /\ importer.id = OpenedImporter
          /\ \A c \in NewCalls :
                /\ c.importer = OpenedImporter
                /\ c.op \in {"meshName", "meshAttributeName"}
          /\ \A k \in 1..Len(mesh[1].attributes) :
                mesh[1].attributes[k].custom =>
                    \E c \in NewCalls :
                        /\ c.op = "meshAttributeName"
                        /\ c.mesh = mesh[1].attributes[k].id
          /\ args.mesh <=> \E c \in NewCalls : c.op = "meshName"
    /\ (singleMesh /\ importer.kind \in {"single", "converted"}) =>
          \A c \in NewCalls : c.importer # OpenedImporter

\* C34: the adapter gets the names of all custom attributes of its mesh and
\* its mesh name from the original importer while it is set up, and from then
\* on no call is made on the original importer, which is destroyed before
\* the preprocessing and the converter chain. The mesh name is the one the
\* original importer has for the mesh selected with --mesh, and empty with
\* --concatenate-meshes.
C34_AdapterResolvesNamesEagerly == [](C34_State) /\ [][C34_Step]_vars

\* with --mesh the second mesh of the file, which carries the named custom
\* attribute 1, was added under the name the file has for it, read from the
\* adapter after the original importer was destroyed
C34_Witness ==
    /\ args.mesh
    /\ importer.kind = "single"
    /\ importer.mesh[1].origin = <<1>>
    /\ importer.name = meshNameInFile(1)
    /\ importer.attributeNames = <<[id |-> 1, name |-> <<1>>]>>
    /\ previousImporter = NoImporter
    /\ calls[Len(calls)].op = "add"
    /\ calls[Len(calls)].name = meshNameInFile(1)
    /\ calls[Len(calls)].importer = importer.id

\* The meshes of the input file that mesh `index` of the current importer
\* is made of
SourceMeshes(index) ==
    IF importer.kind = "single" THEN importer.mesh[1].origin ELSE <<index>>

\* C35: a loose mesh array held when the converter chain starts has one
\* entry per mesh the current importer reports, entry k made of its mesh k,
\* and every loose mesh is added with Names in the mask and under the name
\* the importer has for mesh k: the name of the mesh of the file it was made
\* of, or the empty name of the concatenated mesh.
C35_LooseMeshesNamedAfterTheirSource ==
    (i = 0 /\ meshes # <<>>
     /\ pc \in {"converterLoop", "converterBegin", "looseMeshes"}) =>
        /\ Len(meshes) = importer.meshCount
        /\ \A k \in 1..Len(meshes) : meshes[k].origin = SourceMeshes(k - 1)
        /\ \A k \in LooseMeshAdds :
              /\ "Names" \in calls[k].contents
              /\ calls[k].importer = importer.id
              /\ calls[k].name =
                    (IF args.concatenateMeshes THEN NoName
                     ELSE meshNameInFile(
                              meshes[calls[k].mesh + 1].origin[1]))

\* without --mesh and --concatenate-meshes the second of two preprocessed
\* meshes was added under the name of the second mesh of the file
C35_Witness ==
    /\ ~singleMesh
    /\ pc = "looseMeshes"
    /\ Len(meshes) = 2
    /\ importer.meshCount = 2
    /\ meshIndex = 2
    /\ calls[Len(calls)].op = "add"
    /\ calls[Len(calls)].mesh = 1
    /\ calls[Len(calls)].name = meshNameInFile(1)
    /\ meshes[2].origin = <<1>>

(* ======================================================================= *)
(* The progress messages with --verbose                                    *)
(* ======================================================================= *)
\* The progress messages of the converter chain printed so far
ProgressLog ==
    SelectSeq(calls, LAMBDA c : c.op \in {"Processing", "Saving output"})

\* C36: the assertion i < converterCount of the progress report never
\* fails: with --verbose and more than one -C option a stage that is not the
\* last converter is one of the -C converters, never the implicit trailing
\* AnySceneConverter.
C36_ProgressAssertionHolds ==
    /\ failure # "progressAssertion"
    /\ \A k \in 1..Len(ProgressLog) :
          ProgressLog[k].op = "Processing" =>
              /\ ProgressLog[k].stage < args.converterCount
              /\ AssertedStage(ProgressLog[k].stage, args.converterCount)
    /\ (ProgressReported /\ ~isLastConverter
        /\ pc \in {"converterBegin", "looseMeshes", "addImporterContents",
                   "converterEnd"}) =>
          i < args.converterCount /\ converter.stage = i

\* the second of two -C converters does not save to a file and reported
\* "Processing (2/2)"
C36_Witness ==
    /\ args.verbose
    /\ args.converterCount = 2
    /\ pc = "converterBegin"
    /\ i = 1
    /\ ~isLastConverter
    /\ calls[Len(calls)].op = "Processing"
    /\ calls[Len(calls)].name = <<2, 2>>

\* C37: in every progress message of the converter chain, "Processing (k/n)"
\* or "Saving output (k/n)", 1 <= k <= n, also when the implicit trailing
\* AnySceneConverter saves the output.
C37_OrdinalWithinTotal ==
    \A k \in 1..Len(ProgressLog) :
        /\ 1 <= ProgressLog[k].name[1]
        /\ ProgressLog[k].name[1] <= ProgressLog[k].name[2]

(* ======================================================================= *)
(* Plugin names that are not installed                                     *)
(* ======================================================================= *)
\* Some name given with -M or -C is not the name of an installed plugin
SomeNameMissing ==
    /\ input.plugins.known
    /\ \/ \E j \in 0..(args.meshConverterCount - 1) :
              j \in input.plugins.missingMeshConverters
       \/ \E j \in 0..(args.converterCount - 1) :
              j \in input.plugins.missingConverters

\* C38: a conversion run in which the name of some -M or -C option cannot
\* be instantiated writes no output and, unless something else made it fail
\* before, ends with exit code 2, whatever the input file holds, also if it
\* holds no mesh.
C38_EveryPluginNameChecked ==
    (pc = "done" /\ ~isInfoRequested /\ SomeNameMissing) =>
        /\ FilesWritten = {}
        /\ failure \in {"none", "converterNotFound"} => exitCode = 2
====
